---- MODULE Spec2Model ----
(***************************************************************************)
(* Verification model of the hayride runtime, in parts: the silo thread    *)
(* registry, link_imports, the component type selection, the input stream  *)
(* adapter, the decode loop, option resolution, the WebSocket output pipe, *)
(* the HTTP handler, DB connections, the engine of a spawned morph, the    *)
(* Stores of a server, the llama backend's native resources, the          *)
(* ResourceTable, DSN classification, morph resolution in the registry,    *)
(* the failures of process_compute, the producer task of a stream, the     *)
(* background task of a PostgreSQL connection and the Rows cursor.  Each    *)
(* part has a specification of its own; the other parts stay as            *)
(* constructed while it runs.                                              *)
(*                                                                         *)
(* Part 1: the silo thread registry (crates/hayride-runtime/src/silo).     *)
(* The registry is a DashMap<Uuid, ThreadData>; every access takes the     *)
(* lock of the shard the key hashes to.  wait_for_thread keeps the write   *)
(* guard of the entry alive across `handle.await`.                         *)
(***************************************************************************)
EXTENDS Integers, Sequences, FiniteSets, TLC

\* ------------------------------------------------------------------------
\* Bounds of the model
\* ------------------------------------------------------------------------
MaxThreads == 2

ThreadIds == 1..MaxThreads
\* a DashMap has at least as many shards as the model has ids; two ids may
\* hash to the same shard (shards are interchangeable: id t gets one of 1..t)
Shards == ThreadIds

VARIABLES
    \* ---- silo ----
    threads,      \* SiloCtx.threads: id -> NoEntry or ThreadData
    task,         \* the tokio task spawned for each thread
    abortFlag,    \* the task is marked for cancellation at its next suspension point
    shardOf,      \* the DashMap shard each id hashes to
    shardLock,    \* per shard: 0 (free) or the id whose wait holds the write guard
    spawnPc,      \* position of the spawning call
    resource,     \* the Thread resource is in the spawner's resource table
    waitPc,       \* position of HostThread::wait on the thread
    waitRes,      \* what the last wait returned
    lastOp        \* the last kill, status or group call and what it returned

siloVars == <<threads, task, abortFlag, shardOf, shardLock, spawnPc, resource,
              waitPc, waitRes, lastOp>>

\* ------------------------------------------------------------------------
\* ThreadData (silo.rs) and the pure parts of SiloCtx
\* ------------------------------------------------------------------------
NoEntry == [present |-> FALSE, handle |-> FALSE, status |-> "Unknown"]

ThreadData(handle, status) == [present |-> TRUE, handle |-> handle, status |-> status]

NoOp == [op |-> "none", id |-> 0, res |-> "none", pre |-> "none", post |-> "none",
         live |-> FALSE]

\* the task has not terminated: it is running, or past engine.run and about
\* to update its status
Live(t) == task[t] \in {"running", "finished_run"}

ShardFree(t) == shardLock[shardOf[t]] = 0

AllShardsFree == \A s \in Shards : shardLock[s] = 0

\* SiloCtx::metadata: the entry's metadata, or ThreadNotFound
metadata(t) == IF threads[t].present THEN threads[t].status ELSE "ThreadNotFound"

\* SiloCtx::threads: a snapshot of all entries' metadata
threads_snapshot == {<<t, threads[t].status>> : t \in {u \in ThreadIds : threads[u].present}}

\* the ids threads::Host::group lists
group_ids == {m[1] : m \in threads_snapshot}

\* SiloCtx::insert_thread
insert_thread(t, handle, status) == [threads EXCEPT ![t] = ThreadData(handle, status)]

\* an update that takes the entry out of the registry
update_status_removes(t, status) == [threads EXCEPT ![t] = NoEntry]

\* SiloCtx::update_status: sets the status of an existing entry, keeps its handle;
\* an id that is not in the map is an error the child task only logs
update_status(t, status) ==
    IF threads[t].present
    THEN [threads EXCEPT ![t].status = status]
    ELSE threads

\* SiloCtx::kill_thread on an entry that still has its handle: the handle is
\* taken and the status set to Killed whatever it was
kill_thread_taken(t) == [threads EXCEPT ![t].handle = FALSE, ![t].status = "Killed"]

\* JoinHandle::abort marks the task for cancellation at its next suspension
\* point: a task that has none left (it is past engine.run, or complete) is
\* left alone
abort(t) == [abortFlag EXCEPT ![t] = (task[t] = "running")]

\* ------------------------------------------------------------------------
\* Initial state: SiloCtx::new
\* ------------------------------------------------------------------------
SiloInit ==
    /\ threads = [t \in ThreadIds |-> NoEntry]
    /\ task = [t \in ThreadIds |-> "unspawned"]
    /\ abortFlag = [t \in ThreadIds |-> FALSE]
    /\ shardOf = [t \in ThreadIds |-> 1]
    /\ shardLock = [s \in Shards |-> 0]
    /\ spawnPc = [t \in ThreadIds |-> "idle"]
    /\ resource = [t \in ThreadIds |-> FALSE]
    /\ waitPc = [t \in ThreadIds |-> "idle"]
    /\ waitRes = [t \in ThreadIds |-> "none"]
    /\ lastOp = NoOp

\* ------------------------------------------------------------------------
\* threads::Host::spawn, in two steps: the child task is handed to the
\* runtime (tokio::task::spawn) before the entry is inserted in the registry
\* ------------------------------------------------------------------------
SpawnTask(t) ==
    /\ spawnPc[t] = "idle"
    /\ \A u \in ThreadIds : u < t => spawnPc[u] # "idle"
    /\ \E s \in 1..t : shardOf' = [shardOf EXCEPT ![t] = s]
    /\ task' = [task EXCEPT ![t] = "running"]
    /\ spawnPc' = [spawnPc EXCEPT ![t] = "task_spawned"]
    /\ UNCHANGED <<threads, abortFlag, shardLock, resource, waitPc, waitRes, lastOp>>

SpawnInsert(t) ==
    /\ spawnPc[t] = "task_spawned"
    /\ ShardFree(t)
    /\ threads' = insert_thread(t, TRUE, "Processing")
    /\ resource' = [resource EXCEPT ![t] = TRUE]
    /\ spawnPc' = [spawnPc EXCEPT ![t] = "inserted"]
    /\ UNCHANGED <<task, abortFlag, shardOf, shardLock, waitPc, waitRes, lastOp>>

\* ------------------------------------------------------------------------
\* The child task (the async block of spawn)
\* ------------------------------------------------------------------------
\* engine.run(...).await returns, with a result or an error: the task is past
\* its last suspension point
ChildRunReturns(t) ==
    /\ task[t] = "running"
    /\ task' = [task EXCEPT ![t] = "finished_run"]
    /\ abortFlag' = [abortFlag EXCEPT ![t] = FALSE]
    /\ UNCHANGED <<threads, shardOf, shardLock, spawnPc, resource,
                   waitPc, waitRes, lastOp>>

\* ctx.update_status(thread_id, Exited): get_mut takes the shard's write lock
ChildUpdateStatus(t) ==
    /\ task[t] = "finished_run"
    /\ ShardFree(t)
    /\ threads' = update_status(t, "Exited")
    /\ task' = [task EXCEPT ![t] = "done"]
    /\ UNCHANGED <<abortFlag, shardOf, shardLock, spawnPc, resource, waitPc,
                   waitRes, lastOp>>

\* an aborted task is cancelled at its next suspension point
ChildAborted(t) ==
    /\ task[t] = "running"
    /\ abortFlag[t]
    /\ task' = [task EXCEPT ![t] = "cancelled"]
    /\ abortFlag' = [abortFlag EXCEPT ![t] = FALSE]
    /\ UNCHANGED <<threads, shardOf, shardLock, spawnPc, resource,
                   waitPc, waitRes, lastOp>>

\* ------------------------------------------------------------------------
\* threads::Host::kill -> SiloCtx::kill_thread
\* ------------------------------------------------------------------------
Kill(t) ==
    /\ threads[t].present
    /\ ShardFree(t)
    /\ IF threads[t].handle
       THEN /\ threads' = kill_thread_taken(t)
            /\ abortFlag' = abort(t)
            /\ lastOp' = [op |-> "kill", id |-> t, res |-> "Ok",
                          pre |-> threads[t].status, post |-> "Killed",
                          live |-> Live(t)]
       ELSE /\ UNCHANGED <<threads, abortFlag>>
            /\ lastOp' = [op |-> "kill", id |-> t, res |-> "ThreadNotFound",
                          pre |-> threads[t].status, post |-> threads[t].status,
                          live |-> Live(t)]
    /\ UNCHANGED <<task, shardOf, shardLock, spawnPc, resource, waitPc, waitRes>>

\* ------------------------------------------------------------------------
\* HostThread::wait -> SiloCtx::wait_for_thread
\* ------------------------------------------------------------------------
\* get_mut takes the shard's write lock; with a handle to take the guard stays
\* alive while the handle is awaited, without one the call returns at once
WaitBegin(t) ==
    /\ resource[t]
    /\ waitPc[t] # "awaiting"
    /\ ShardFree(t)
    /\ IF threads[t].present /\ threads[t].handle
       THEN /\ threads' = [threads EXCEPT ![t].handle = FALSE]
            /\ shardLock' = [shardLock EXCEPT ![shardOf[t]] = t]
            /\ waitPc' = [waitPc EXCEPT ![t] = "awaiting"]
            /\ UNCHANGED <<waitRes, lastOp>>
       ELSE /\ waitPc' = [waitPc EXCEPT ![t] = "returned"]
            /\ waitRes' = [waitRes EXCEPT ![t] = "ThreadNotFound"]
            /\ UNCHANGED <<threads, shardLock, lastOp>>
    /\ UNCHANGED <<task, abortFlag, shardOf, spawnPc, resource>>

\* handle.await resolves once the task has completed or was cancelled; the
\* guard is dropped when wait_for_thread returns
WaitEnd(t) ==
    /\ waitPc[t] = "awaiting"
    /\ task[t] \in {"done", "cancelled"}
    /\ shardLock' = [shardLock EXCEPT ![shardOf[t]] = 0]
    /\ waitPc' = [waitPc EXCEPT ![t] = "returned"]
    /\ waitRes' = [waitRes EXCEPT ![t] = IF task[t] = "done" THEN "Ok" ELSE "ThreadFailed"]
    /\ UNCHANGED <<threads, task, abortFlag, shardOf, spawnPc, resource, lastOp>>

\* ------------------------------------------------------------------------
\* threads::Host::status, threads::Host::group, HostThread::drop
\* ------------------------------------------------------------------------
Status(t) ==
    /\ spawnPc[t] # "idle"
    /\ ShardFree(t)
    /\ lastOp' = [op |-> "status", id |-> t, res |-> metadata(t), pre |-> "none",
                  post |-> "none", live |-> FALSE]
    /\ UNCHANGED <<threads, task, abortFlag, shardOf, shardLock, spawnPc, resource,
                   waitPc, waitRes>>

Group ==
    /\ AllShardsFree
    /\ lastOp' = [op |-> "group", id |-> 0, res |-> "Ok", pre |-> "none",
                  post |-> "none", live |-> FALSE]
    /\ UNCHANGED <<threads, task, abortFlag, shardOf, shardLock, spawnPc, resource,
                   waitPc, waitRes>>

DropThread(t) ==
    /\ resource[t]
    /\ waitPc[t] # "awaiting"
    /\ resource' = [resource EXCEPT ![t] = FALSE]
    /\ UNCHANGED <<threads, task, abortFlag, shardOf, shardLock, spawnPc, waitPc,
                   waitRes, lastOp>>

\* ------------------------------------------------------------------------
\* Part 2: WasmtimeEngine::link_imports (crates/hayride-runtime/src/engine.rs)
\* ------------------------------------------------------------------------
VARIABLES
    linkImports,  \* the imports of the component (WitParser::imports)
    linkCfg,      \* the enable flags the engine was built with
    linkRes       \* what link_imports returned, NoLink before the call

linkVars == <<linkImports, linkCfg, linkRes>>

Import(ns, n) == [namespace |-> ns, name |-> n]

\* the imports a component may declare
ImportNames ==
    {Import("wasi", "cli"), Import("wasi", "nn"), Import("hayride", "core"),
     Import("hayride", "ai"), Import("hayride", "silo"), Import("hayride", "wac"),
     Import("hayride", "db"), Import("other", "pkg")}

\* EngineBuilder's flags
EngineFlags ==
    [core_enabled : BOOLEAN, ai_enabled : BOOLEAN, silo_enabled : BOOLEAN,
     wac_enabled : BOOLEAN, wasi_enabled : BOOLEAN]

NoLink == [called |-> FALSE, ok |-> FALSE, err |-> "none", linked |-> {}]

LinkOk(linked) == [called |-> TRUE, ok |-> TRUE, err |-> "none", linked |-> linked]

LinkErr(msg) == [called |-> TRUE, ok |-> FALSE, err |-> msg, linked |-> {}]

\* the flags link_imports collects from the imports
wasi_imported(I) == \E i \in I : i.namespace = "wasi"

core_imported(I) == \E i \in I : i.namespace = "hayride" /\ i.name = "core"

ai_imported(I) ==
    \/ \E i \in I : i.namespace = "hayride" /\ i.name = "ai"
    \/ \E i \in I : i.namespace = "wasi" /\ i.name = "nn"

silo_imported(I) == \E i \in I : i.namespace = "hayride" /\ i.name = "silo"

wac_imported(I) == \E i \in I : i.namespace = "hayride" /\ i.name = "wac"

\* the host implementations added to the linker when every check passes
linked_interfaces(I) ==
    (IF wasi_imported(I) THEN {"wasi"} ELSE {})
        \cup (IF core_imported(I) THEN {"core"} ELSE {})
        \cup (IF ai_imported(I) THEN {"ai"} ELSE {})
        \cup (IF silo_imported(I) THEN {"silo"} ELSE {})
        \cup (IF wac_imported(I) THEN {"wac"} ELSE {})

link_imports(I, cfg) ==
    IF wasi_imported(I) /\ ~cfg.wasi_enabled THEN LinkErr("WASI is not enabled")
    ELSE IF core_imported(I) /\ ~cfg.core_enabled THEN LinkErr("Core is not enabled")
    ELSE IF ai_imported(I) /\ ~cfg.ai_enabled THEN LinkErr("AI is not enabled")
    ELSE IF silo_imported(I) /\ ~cfg.silo_enabled THEN LinkErr("Silo is not enabled")
    ELSE IF wac_imported(I) /\ ~cfg.wac_enabled THEN LinkErr("WAC is not enabled")
    ELSE LinkOk(linked_interfaces(I))

LinkIdle ==
    /\ linkImports = {}
    /\ linkCfg = [core_enabled |-> TRUE, ai_enabled |-> FALSE, silo_enabled |-> FALSE,
                  wac_enabled |-> FALSE, wasi_enabled |-> TRUE]
    /\ linkRes = NoLink

LinkInit ==
    /\ linkImports \in SUBSET ImportNames
    /\ linkCfg \in EngineFlags
    /\ linkRes = NoLink

\* WasmtimeEngine::run up to the return of link_imports
LinkImports ==
    /\ ~linkRes.called
    /\ linkRes' = link_imports(linkImports, linkCfg)
    /\ UNCHANGED <<linkImports, linkCfg>>

\* ------------------------------------------------------------------------
\* Part 3: the ComponentType selection of WasmtimeEngine::run (engine.rs)
\* over the exports listed by parse_function_exports (wit/parser.rs)
\* ------------------------------------------------------------------------
MaxExports == 3

VARIABLES
    exports,        \* WitParser::function_exports, in the order of the world
    component_type  \* the ComponentType run selected, "none" before the scan

shapeVars == <<exports, component_type>>

\* a function export: the function's name and the name of the interface it
\* is exported under ("none" for a function exported by the world itself)
FunctionExport(n, i) == [name |-> n, interface |-> i]

ExportKinds ==
    {FunctionExport("run", "run"), FunctionExport("handle", "websocket"),
     FunctionExport("handle", "incoming-handler"), FunctionExport("handle", "none"),
     FunctionExport("get", "store")}

\* parse_function_exports yields the exports in the order the world lists them
function_exports == UNION {[1..n -> ExportKinds] : n \in 0..MaxExports}

\* the body of the for_each closure: the type after looking at export f
select_type(current, f) ==
    IF f.name = "run" THEN "Cli"
    ELSE IF f.name = "handle"
         THEN IF f.interface = "websocket" THEN "WebsocketServer" ELSE "Server"
         ELSE current

RECURSIVE scan_exports(_, _, _)
scan_exports(es, k, current) ==
    IF k > Len(es) THEN current
    ELSE scan_exports(es, k + 1, select_type(current, es[k]))

ShapeIdle ==
    /\ exports = <<>>
    /\ component_type = "none"

ShapeInit ==
    /\ exports \in function_exports
    /\ component_type = "none"

\* the scan starts from Reactor and visits every export
SelectComponentType ==
    /\ component_type = "none"
    /\ component_type' = scan_exports(exports, 1, "Reactor")
    /\ UNCHANGED exports

\* ------------------------------------------------------------------------
\* Part 4: the input stream adapter, TensorStream (host-traits/src/ai/nn/nn.rs)
\* and WebsocketInputPipe (runtime/src/websocket.rs): a producer task reads
\* the source and sends what it got over a bounded channel; read and ready
\* take from the channel through a one-item buffer.
\* ------------------------------------------------------------------------
MaxBytes == 4          \* bytes the source yields before it can only end or fail
MaxFrame == 3          \* longest frame one read_buf of the source fills
MaxSize == 2           \* largest size cap a read is called with
TensorChannel == 1     \* mpsc::channel(1) of TensorStream::new
MaxQueue == 2          \* stands for the mpsc::channel(2048) of WebsocketInputPipe::new

VARIABLES
    channelCap,   \* capacity of the channel between producer and stream
    produced,     \* number of bytes the source has yielded; byte i has value i
    sourceEof,    \* the source has reported end of file
    pending,      \* the item the producer is sending, NoItem while it reads
    channel,      \* the items in the channel, oldest first
    buffer,       \* TensorStream.buffer: NoItem for None
    closed,       \* TensorStream.closed
    readOut,      \* the bytes the reads returned so far, concatenated
    lastRead      \* the last read call and what it returned

streamVars == <<channelCap, produced, sourceEof, pending, channel, buffer, closed,
                readOut, lastRead>>

NoItem == [kind |-> "none", bytes |-> <<>>, err |-> "none"]

OkBytes(bytes) == [kind |-> "data", bytes |-> bytes, err |-> "none"]

ErrItem(e) == [kind |-> "err", bytes |-> <<>>, err |-> e]

NoRead == [res |-> "none", len |-> 0, err |-> "none", split |-> FALSE,
           closedBefore |-> FALSE]

Min(a, b) == IF a < b THEN a ELSE b

\* a split_off that loses the byte at the split point
split_off_skips(bytes, at) == SubSeq(bytes, at + 2, Len(bytes))

\* Bytes::split_off(at): the bytes from index at on ...
split_off(bytes, at) == SubSeq(bytes, at + 1, Len(bytes))

\* ... and what stays in the receiver, the first at bytes
split_keep(bytes, at) == SubSeq(bytes, 1, at)

\* the frame of k bytes the source yields next
next_frame(k) == [i \in 1..k |-> produced + i]

\* the bytes of every frame the producer has enqueued, in order
enqueued_bytes == [i \in 1..(produced - Len(pending.bytes)) |-> i]

\* the bytes of the data items of q, in order
RECURSIVE queued_bytes(_)
queued_bytes(q) ==
    IF q = <<>> THEN <<>> ELSE Head(q).bytes \o queued_bytes(Tail(q))

StreamIdle ==
    /\ channelCap = TensorChannel
    /\ produced = 0
    /\ sourceEof = FALSE
    /\ pending = NoItem
    /\ channel = <<>>
    /\ buffer = NoItem
    /\ closed = FALSE
    /\ readOut = <<>>
    /\ lastRead = NoRead

StreamInit ==
    /\ channelCap \in {TensorChannel, MaxQueue}
    /\ produced = 0
    /\ sourceEof = FALSE
    /\ pending = NoItem
    /\ channel = <<>>
    /\ buffer = NoItem
    /\ closed = FALSE
    /\ readOut = <<>>
    /\ lastRead = NoRead

\* producer: reader.read_buf returned nbytes > 0
ProducerReadData ==
    /\ pending = NoItem
    /\ ~sourceEof
    /\ \E k \in 1..Min(MaxFrame, MaxBytes - produced) :
          /\ pending' = OkBytes(next_frame(k))
          /\ produced' = produced + k
    /\ UNCHANGED <<channelCap, sourceEof, channel, buffer, closed, readOut, lastRead>>

\* producer: reader.read_buf returned 0 bytes (and does so from then on)
ProducerReadEof ==
    /\ pending = NoItem
    /\ pending' = ErrItem("Closed")
    /\ sourceEof' = TRUE
    /\ UNCHANGED <<channelCap, produced, channel, buffer, closed, readOut, lastRead>>

\* producer: reader.read_buf failed; the loop goes on reading afterwards
ProducerReadErr ==
    /\ pending = NoItem
    /\ ~sourceEof
    /\ pending' = ErrItem("LastOperationFailed")
    /\ UNCHANGED <<channelCap, produced, sourceEof, channel, buffer, closed, readOut,
                   lastRead>>

\* producer: sender.send completes once the channel has room
ProducerSend ==
    /\ pending # NoItem
    /\ Len(channel) < channelCap
    /\ channel' = Append(channel, pending)
    /\ pending' = NoItem
    /\ UNCHANGED <<channelCap, produced, sourceEof, buffer, closed, readOut, lastRead>>

\* read returning Ok(bytes) after splitting item at min(len, size)
ReadData(item, size, chan) ==
    LET len == Min(Len(item.bytes), size)
        rest == split_off(item.bytes, len)
        out == split_keep(item.bytes, len)
    IN  /\ buffer' = IF rest # <<>> THEN OkBytes(rest) ELSE NoItem
        /\ channel' = chan
        /\ readOut' = readOut \o out
        /\ lastRead' = [res |-> "Ok", len |-> Len(out), err |-> "none",
                        split |-> rest # <<>>, closedBefore |-> closed]
        /\ UNCHANGED closed

\* read returning Err(e)
ReadErr(item, chan) ==
    /\ buffer' = NoItem
    /\ channel' = chan
    /\ closed' = TRUE
    /\ lastRead' = [res |-> "Err", len |-> 0, err |-> item.err, split |-> FALSE,
                    closedBefore |-> closed]
    /\ UNCHANGED readOut

\* HostInputStream::read(size)
Read(size) ==
    /\ IF buffer.kind = "data" THEN ReadData(buffer, size, channel)
       ELSE IF buffer.kind = "err" THEN ReadErr(buffer, channel)
       ELSE IF channel # <<>>
            THEN IF Head(channel).kind = "data"
                 THEN ReadData(Head(channel), size, Tail(channel))
                 ELSE ReadErr(Head(channel), Tail(channel))
            ELSE \* TryRecvError::Empty (the sender lives as long as the stream)
                 /\ lastRead' = [res |-> "Ok", len |-> 0, err |-> "none",
                                 split |-> FALSE, closedBefore |-> closed]
                 /\ UNCHANGED <<buffer, channel, closed, readOut>>
    /\ UNCHANGED <<channelCap, produced, sourceEof, pending>>

\* Subscribe::ready: returns at once, or when recv has yielded an item
Ready ==
    /\ IF buffer # NoItem \/ closed
       THEN UNCHANGED <<buffer, channel>>
       ELSE /\ channel # <<>>
            /\ buffer' = Head(channel)
            /\ channel' = Tail(channel)
    /\ UNCHANGED <<channelCap, produced, sourceEof, pending, closed, readOut, lastRead>>

\* ------------------------------------------------------------------------
\* Part 5: prompt sizing and the decode loop of process_compute
\* (crates/hayride-llama/src/lib.rs)
\* ------------------------------------------------------------------------
MaxDecoded == 160          \* the model stops following a run after this many tokens
BatchGrowth == 512         \* new_batch_size = min(prompt_size + 512, num_context)
TruncateRoom == 64         \* max_prompt_tokens = batch_size - 64
ContextReserve == 1000     \* the loop stops when position > num_context - 1000
CleanupPeriod == 100       \* the KV cache is cleared when n_decoded % 100 == 0
MaxContext == 128000       \* max_context
DefaultContext == 40960    \* num_context when the options set none
DefaultBatch == 2048       \* batch_size when the options set none
DefaultPredict == 5000     \* max_predict when the options set none

VARIABLES
    prompt_size,   \* number of tokens llama_tokenize produced
    num_context,   \* options: the context size
    batch_size,    \* options: the batch size, raised by prompt sizing
    max_predict,   \* options: the number of tokens to generate at most
    decodePc,      \* where process_compute is
    position,      \* the loop's position
    n_tokens,      \* batch.n_tokens()
    n_decoded      \* the loop's n_decoded

decodeVars == <<prompt_size, num_context, batch_size, max_predict, decodePc, position,
                n_tokens, n_decoded>>

PromptSizes == {8, 600, 1250, 2600, 3000}

\* values of the PromptOptions fields; 0 leaves the default in place
OptionContexts == {0, 1024, 2048, 2400}

OptionBatches == {0, 512, 1024, 2500}

OptionPredicts == {0, 1, 150}

\* the overrides process_compute applies to its defaults
context_option(o) ==
    IF o # 0 THEN (IF o > MaxContext THEN MaxContext ELSE o) ELSE DefaultContext

batch_option(o, context) ==
    IF o # 0 THEN (IF o > context THEN context ELSE o) ELSE DefaultBatch

\* a predict_option that takes a zero as the value
predict_option_literal(o) == o

predict_option(o) == IF o # 0 THEN o ELSE DefaultPredict

\* Strategy 1: the batch grows to take the prompt, within the context
new_batch_size == Min(prompt_size + BatchGrowth, num_context)

batch_grows == new_batch_size <= num_context /\ new_batch_size > batch_size

\* Vec::drain(0..truncate_amount) on prompt_tokens, whose length is still 0
\* (set_len comes after): it panics when the range ends past the length
truncate_amount == prompt_size - (batch_size - TruncateRoom)

drain_panics == truncate_amount > 0

\* the condition of the while loop
loop_condition == position + n_tokens < prompt_size + max_predict

\* llama_decode evaluates the batch only when it fits the context
decode_fits == position + n_tokens <= num_context

DecodeIdle ==
    /\ prompt_size = 8
    /\ num_context = DefaultContext
    /\ batch_size = DefaultBatch
    /\ max_predict = DefaultPredict
    /\ decodePc = "sizing"
    /\ position = 0
    /\ n_tokens = 0
    /\ n_decoded = 0

DecodeInit ==
    /\ prompt_size \in PromptSizes
    /\ \E c \in OptionContexts, b \in OptionBatches :
          /\ num_context = context_option(c)
          /\ batch_size = batch_option(b, context_option(c))
    /\ \E m \in OptionPredicts : max_predict = predict_option(m)
    /\ decodePc = "sizing"
    /\ position = 0
    /\ n_tokens = 0
    /\ n_decoded = 0

\* prompt sizing, then the prompt's tokens are added to the first batch
PromptSizing ==
    /\ decodePc = "sizing"
    /\ IF prompt_size >= batch_size
       THEN IF batch_grows
            THEN /\ batch_size' = new_batch_size
                 /\ decodePc' = "loop"
                 /\ n_tokens' = prompt_size
            ELSE /\ decodePc' = IF drain_panics THEN "panicked" ELSE "loop"
                 /\ n_tokens' = IF drain_panics THEN 0 ELSE prompt_size
                 /\ UNCHANGED batch_size
       ELSE /\ decodePc' = "loop"
            /\ n_tokens' = prompt_size
            /\ UNCHANGED batch_size
    /\ UNCHANGED <<prompt_size, num_context, max_predict, position, n_decoded>>

\* the while condition is false
LoopEnds ==
    /\ decodePc = "loop"
    /\ ~loop_condition
    /\ decodePc' = "done"
    /\ UNCHANGED <<prompt_size, num_context, batch_size, max_predict, position,
                   n_tokens, n_decoded>>

\* position > num_context - 1000: break
ContextLimitBreak ==
    /\ decodePc = "loop"
    /\ loop_condition
    /\ position > num_context - ContextReserve
    /\ decodePc' = "done"
    /\ UNCHANGED <<prompt_size, num_context, batch_size, max_predict, position,
                   n_tokens, n_decoded>>

\* llama_decode fails (also after the retry that follows -3): return Err
DecodeFails ==
    /\ decodePc = "loop"
    /\ loop_condition
    /\ position <= num_context - ContextReserve
    /\ decodePc' = "error"
    /\ UNCHANGED <<prompt_size, num_context, batch_size, max_predict, position,
                   n_tokens, n_decoded>>

\* llama_decode succeeds and the sampled token ends the generation: break
SampleEog ==
    /\ decodePc = "loop"
    /\ loop_condition
    /\ position <= num_context - ContextReserve
    /\ decode_fits
    /\ position' = position + n_tokens
    /\ decodePc' = "done"
    /\ UNCHANGED <<prompt_size, num_context, batch_size, max_predict, n_tokens,
                   n_decoded>>

\* llama_decode succeeds and the sampled token becomes the next batch
SampleToken ==
    /\ decodePc = "loop"
    /\ loop_condition
    /\ position <= num_context - ContextReserve
    /\ decode_fits
    /\ n_decoded < MaxDecoded
    /\ LET pos == position + n_tokens
       IN  position' = IF n_decoded % CleanupPeriod = 0 /\ pos > num_context \div 2
                       THEN prompt_size
                       ELSE pos
    /\ n_tokens' = 1
    /\ n_decoded' = n_decoded + 1
    /\ UNCHANGED <<prompt_size, num_context, batch_size, max_predict, decodePc>>

\* ------------------------------------------------------------------------
\* Part 6: the option resolution of process_compute (hayride-llama/src/lib.rs)
\* temperature and top_p are f32: the model counts them in hundredths
\* ------------------------------------------------------------------------
DefaultTopK == 20          \* top_k when the options set none
DefaultTemperature == 80   \* temperature 0.8
DefaultTopP == 95          \* top_p 0.95

VARIABLES
    options,     \* the PromptOptions of the options tensor, NoOptions without one
    effective    \* the parameters process_compute goes on with, NoOptions before

optionVars == <<options, effective>>

PromptOptions ==
    [temperature : {0, 50}, num_context : {0, 1024, 200000}, num_batch : {0, 512, 2500},
     max_predict : {0, 150}, top_k : {0, 40}, top_p : {0, 90}, seed : {0, 7}]

\* values rng.random() may yield for the seed
RandomSeeds == {11, 12}

NoOptions == [temperature |-> -1, num_context |-> -1, num_batch |-> -1,
              max_predict |-> -1, top_k |-> -1, top_p |-> -1, seed |-> -1]

top_k_option(o) == IF o # 0 THEN o ELSE DefaultTopK

seed_option(o, random) == IF o # 0 THEN o ELSE random

\* the match on the options tensor: Some(tensor) overrides, None keeps all defaults
resolve_options(o, random) ==
    IF o = NoOptions
    THEN [temperature |-> DefaultTemperature, num_context |-> DefaultContext,
          num_batch |-> DefaultBatch, max_predict |-> DefaultPredict,
          top_k |-> DefaultTopK, top_p |-> DefaultTopP, seed |-> random]
    ELSE [temperature |-> o.temperature,
          num_context |-> context_option(o.num_context),
          num_batch |-> batch_option(o.num_batch, context_option(o.num_context)),
          max_predict |-> predict_option(o.max_predict),
          top_k |-> top_k_option(o.top_k),
          top_p |-> o.top_p,
          seed |-> seed_option(o.seed, random)]

OptionsIdle ==
    /\ options = NoOptions
    /\ effective = NoOptions

OptionsInit ==
    /\ options \in PromptOptions \cup {NoOptions}
    /\ effective = NoOptions

ResolveOptions ==
    /\ effective = NoOptions
    /\ \E random \in RandomSeeds : effective' = resolve_options(options, random)
    /\ UNCHANGED options

\* ------------------------------------------------------------------------
\* Part 7: WebsocketOutputPipe (crates/hayride-runtime/src/websocket.rs):
\* write hands the payload to a bounded channel with try_send; a detached
\* task receives from the channel and sends each payload as a text frame
\* ------------------------------------------------------------------------
MaxWrites == 4         \* write calls the component makes
OutQueueCap == 2       \* stands for the mpsc::channel(2048) of WebsocketOutputPipe::new

VARIABLES
    writes,       \* number of write calls made so far; the k-th call writes payload k
    written,      \* the payloads of the writes that returned Ok, in call order
    lastWrite,    \* what the last write call returned
    outQueue,     \* the channel between write and the writer task
    sending,      \* the payload the writer task has received and is sending, 0 for none
    frames,       \* the frames the socket has accepted, in order
    failedSends   \* the payloads whose socket send returned an error

outputVars == <<writes, written, lastWrite, outQueue, sending, frames, failedSends>>

\* Message::Text(bytes)
TextFrame(payload) == [type |-> "Text", payload |-> payload]

\* a try_send that puts the message at the head of the channel
try_send_first(q, m) == <<m>> \o q

\* Sender::try_send on a channel with room
try_send(q, m) == Append(q, m)

OutputInit ==
    /\ writes = 0
    /\ written = <<>>
    /\ lastWrite = "none"
    /\ outQueue = <<>>
    /\ sending = 0
    /\ frames = <<>>
    /\ failedSends = {}

\* OutputStream::write(bytes): bytes that are not UTF-8 are refused; a full
\* channel refuses the payload; otherwise the payload is queued
Write(utf8) ==
    /\ writes < MaxWrites
    /\ writes' = writes + 1
    /\ IF ~utf8 \/ Len(outQueue) >= OutQueueCap
       THEN /\ lastWrite' = "Closed"
            /\ UNCHANGED <<written, outQueue>>
       ELSE /\ outQueue' = try_send(outQueue, writes + 1)
            /\ written' = Append(written, writes + 1)
            /\ lastWrite' = "Ok"
    /\ UNCHANGED <<sending, frames, failedSends>>

\* writer task: receiver.recv() yields the oldest payload
WriterRecv ==
    /\ sending = 0
    /\ outQueue # <<>>
    /\ sending' = Head(outQueue)
    /\ outQueue' = Tail(outQueue)
    /\ UNCHANGED <<writes, written, lastWrite, frames, failedSends>>

\* writer task: write.send(Message::Text(bytes)) succeeds
WriterSendOk ==
    /\ sending # 0
    /\ frames' = Append(frames, TextFrame(sending))
    /\ sending' = 0
    /\ UNCHANGED <<writes, written, lastWrite, outQueue, failedSends>>

\* writer task: write.send fails; the error is printed and the loop goes on
WriterSendErr ==
    /\ sending # 0
    /\ failedSends' = failedSends \cup {sending}
    /\ sending' = 0
    /\ UNCHANGED <<writes, written, lastWrite, outQueue, frames>>

\* ------------------------------------------------------------------------
\* Part 8: Server::handle_request (crates/hayride-runtime/src/server.rs):
\* every request gets a Store of its own, the guest's handle runs in a
\* spawned task, and handle_request awaits the response outparam's oneshot
\* ------------------------------------------------------------------------
MaxRequests == 2

Requests == 1..MaxRequests

VARIABLES
    handlePc,     \* per request: handle_request is "idle", "awaiting" or "returned"
    handleRes,    \* per request: what handle_request returned, "panic" for a panic
    guestTask,    \* per request: the task running the guest's handle
    outparam      \* per request: what the guest passed to response-outparam::set

httpVars == <<handlePc, handleRes, guestTask, outparam>>

HttpInit ==
    /\ handlePc = [r \in Requests |-> "idle"]
    /\ handleRes = [r \in Requests |-> "none"]
    /\ guestTask = [r \in Requests |-> "none"]
    /\ outparam = [r \in Requests |-> "unset"]

\* the Store is built, the component instantiated and the task spawned
HandleRequest(r) ==
    /\ handlePc[r] = "idle"
    /\ handlePc' = [handlePc EXCEPT ![r] = "awaiting"]
    /\ guestTask' = [guestTask EXCEPT ![r] = "running"]
    /\ UNCHANGED <<handleRes, outparam>>

\* the guest calls response-outparam::set with a response or an error code:
\* the oneshot's sender is consumed
GuestSets(r, value) ==
    /\ guestTask[r] = "running"
    /\ outparam[r] = "unset"
    /\ outparam' = [outparam EXCEPT ![r] = value]
    /\ UNCHANGED <<handlePc, handleRes, guestTask>>

\* call_handle returns Ok(()) or Err(e), or the task panics: the task is
\* over and its Store, with an unused sender in it, is dropped
GuestTaskEnds(r, result) ==
    /\ guestTask[r] = "running"
    /\ guestTask' = [guestTask EXCEPT ![r] = result]
    /\ UNCHANGED <<handlePc, handleRes, outparam>>

\* what the Err(_) arm of `match receiver.await` makes of the task's result:
\* Ok(r) => r.unwrap_err() panics when r is Ok(())
disconnected_result(result) ==
    IF result = "Ok" THEN "panic" ELSE "never_invoked"

\* receiver.await yields what the guest set
HandleReceives(r) ==
    /\ handlePc[r] = "awaiting"
    /\ outparam[r] # "unset"
    /\ handlePc' = [handlePc EXCEPT ![r] = "returned"]
    /\ handleRes' = [handleRes EXCEPT ![r] = outparam[r]]
    /\ UNCHANGED <<guestTask, outparam>>

\* receiver.await fails once the sender is dropped unused; task.await follows
HandleDisconnected(r) ==
    /\ handlePc[r] = "awaiting"
    /\ outparam[r] = "unset"
    /\ guestTask[r] \in {"Ok", "Err", "JoinError"}
    /\ handlePc' = [handlePc EXCEPT ![r] = "returned"]
    /\ handleRes' = [handleRes EXCEPT ![r] = disconnected_result(guestTask[r])]
    /\ UNCHANGED <<guestTask, outparam>>

\* ------------------------------------------------------------------------
\* Part 9: a DB connection and the handles derived from it
\* (crates/hayride-db/src/postgres.rs, sqlite.rs): the connection owns
\* Arc<Mutex<Option<client>>>, every Statement holds a clone of that Arc,
\* a Rows holds its own rows (SQLite: all collected by query; PostgreSQL:
\* a stream fed by the connection's background task)
\* ------------------------------------------------------------------------
MaxStatements == 2
MaxCursors == 2
MaxRows == 2

Backends == {"postgres", "sqlite"}

VARIABLES
    dbBackend,      \* which backend opened the connection
    dbClient,       \* TRUE while the Option in the shared Mutex is Some
    dbTask,         \* the background task driving the connection: "none" for SQLite
    dbStatements,   \* number of Statement handles prepared on the connection
    dbRows,         \* the Rows handles obtained from queries
    lastDb          \* the last call on the connection or a derived handle

dbVars == <<dbBackend, dbClient, dbTask, dbStatements, dbRows, lastDb>>

NoDbCall == [op |-> "none", closed |-> FALSE, res |-> "none"]

\* the rows a query yields: SQLite collects them all, PostgreSQL returns a
\* stream of which some rows may already be buffered
RowSets(backend) ==
    IF backend = "sqlite"
    THEN {[buffered |-> b, pending |-> 0, finished |-> FALSE] : b \in 0..MaxRows}
    ELSE {[buffered |-> b, pending |-> p, finished |-> FALSE] :
              b \in 0..MaxRows, p \in 0..MaxRows}

\* PostgresDBConnection::new / SQLiteDBConnection::new
DbOpen(backend) ==
    /\ dbBackend = backend
    /\ dbClient = TRUE
    /\ dbTask = IF backend = "postgres" THEN "running" ELSE "none"
    /\ dbStatements = 0
    /\ dbRows = <<>>
    /\ lastDb = NoDbCall

DbIdle == DbOpen("sqlite")

DbInit == \E backend \in Backends : DbOpen(backend)

\* DBConnection::prepare: fails when the client is gone (or the database
\* rejects the statement, PostgreSQL only)
prepare(client, accepted) ==
    IF client /\ accepted THEN "Ok" ELSE "PrepareFailed"

Prepare(accepted) ==
    /\ dbStatements < MaxStatements
    /\ accepted \/ (dbBackend = "postgres" /\ dbClient)
    /\ LET res == prepare(dbClient, accepted) IN
        /\ dbStatements' = IF res = "Ok" THEN dbStatements + 1 ELSE dbStatements
        /\ lastDb' = [op |-> "prepare", closed |-> ~dbClient, res |-> res]
    /\ UNCHANGED <<dbBackend, dbClient, dbTask, dbRows>>

\* DBStatement::query on a Statement prepared earlier
Query(rows) ==
    /\ dbStatements > 0
    /\ Len(dbRows) < MaxCursors
    /\ rows.buffered + rows.pending <= MaxRows
    /\ IF dbClient
       THEN /\ dbRows' = Append(dbRows, rows)
            /\ lastDb' = [op |-> "query", closed |-> FALSE, res |-> "Ok"]
       ELSE /\ dbRows' = dbRows
            /\ lastDb' = [op |-> "query", closed |-> TRUE, res |-> "QueryFailed"]
    /\ UNCHANGED <<dbBackend, dbClient, dbTask, dbStatements>>

\* DBStatement::execute on a Statement prepared earlier
Execute ==
    /\ dbStatements > 0
    /\ lastDb' = [op |-> "execute", closed |-> ~dbClient,
                  res |-> IF dbClient THEN "Ok" ELSE "ExecuteFailed"]
    /\ UNCHANGED <<dbBackend, dbClient, dbTask, dbStatements, dbRows>>

\* DBRows::next: SQLiteRows indexes its own Vec; PostgresRows polls its
\* stream, which ends in an error once the connection task is gone with
\* rows still outstanding
next(rows, connTask, client) ==
    IF rows.finished THEN [res |-> "EndOfRows", rows |-> rows]
    ELSE IF rows.buffered > 0
    THEN [res |-> "Ok", rows |-> [rows EXCEPT !.buffered = @ - 1]]
    ELSE IF rows.pending > 0 /\ connTask = "cancelled"
    THEN [res |-> "QueryFailed", rows |-> [rows EXCEPT !.finished = TRUE]]
    ELSE [res |-> "EndOfRows", rows |-> [rows EXCEPT !.finished = TRUE]]

RowsNext(i) ==
    /\ i \in 1..Len(dbRows)
    /\ dbRows[i].buffered > 0 \/ dbRows[i].pending = 0 \/ dbTask = "cancelled"
    /\ LET n == next(dbRows[i], dbTask, dbClient) IN
        /\ dbRows' = [dbRows EXCEPT ![i] = n.rows]
        /\ lastDb' = [op |-> "next", closed |-> ~dbClient, res |-> n.res]
    /\ UNCHANGED <<dbBackend, dbClient, dbTask, dbStatements>>

\* the PostgreSQL background task receives one more row of a stream
ConnectionDelivers(i) ==
    /\ i \in 1..Len(dbRows)
    /\ dbTask = "running"
    /\ dbRows[i].pending > 0
    /\ dbRows' = [dbRows EXCEPT ![i] = [@ EXCEPT !.pending = @ - 1,
                                                 !.buffered = @ + 1]]
    /\ UNCHANGED <<dbBackend, dbClient, dbTask, dbStatements, lastDb>>

\* DBConnection::close: cancels the token (PostgreSQL) and takes the client
\* out of the shared Option
Close ==
    /\ dbClient' = FALSE
    /\ dbTask' = IF dbTask = "running" THEN "cancelled" ELSE dbTask
    /\ lastDb' = [op |-> "close", closed |-> ~dbClient, res |-> "Ok"]
    /\ UNCHANGED <<dbBackend, dbStatements, dbRows>>

\* ------------------------------------------------------------------------
\* Part 10: the engine silo spawn builds for a morph
\* (crates/hayride-runtime/src/silo/silo_impl.rs, threads::Host::spawn) and
\* WasmtimeEngine::run on it: link_imports, then the component's code
\* ------------------------------------------------------------------------
VARIABLES
    morphPc,      \* the spawned engine: "none", "spawned", "linked", "failed", "running"
    morphCalls    \* the host capabilities the morph's code has called into

morphVars == <<morphPc, morphCalls>>

\* a builder that leaves silo enabled for spawned morphs
spawn_flags_inherited ==
    [core_enabled |-> TRUE, ai_enabled |-> TRUE, silo_enabled |-> TRUE,
     wac_enabled |-> TRUE, wasi_enabled |-> TRUE]

\* the EngineBuilder calls of spawn
spawn_flags ==
    [core_enabled |-> TRUE, ai_enabled |-> TRUE, silo_enabled |-> FALSE,
     wac_enabled |-> TRUE, wasi_enabled |-> TRUE]

MorphIdle ==
    /\ morphPc = "none"
    /\ morphCalls = {}

\* spawn has built the engine for a morph with some set of imports
MorphInit ==
    /\ linkImports \in SUBSET ImportNames
    /\ linkCfg = spawn_flags
    /\ linkRes = NoLink
    /\ morphPc = "spawned"
    /\ morphCalls = {}

\* engine.run: link_imports, an error ends the task before instantiation
MorphLink ==
    /\ morphPc = "spawned"
    /\ linkRes' = link_imports(linkImports, linkCfg)
    /\ morphPc' = IF linkRes'.ok THEN "linked" ELSE "failed"
    /\ UNCHANGED <<linkImports, linkCfg, morphCalls>>

\* the component is instantiated and its function called
MorphRuns ==
    /\ morphPc = "linked"
    /\ morphPc' = "running"
    /\ UNCHANGED <<linkVars, morphCalls>>

\* the running morph calls an import: only what the linker holds resolves
MorphCalls(capability) ==
    /\ morphPc = "running"
    /\ capability \in linkRes.linked
    /\ morphCalls' = morphCalls \cup {capability}
    /\ UNCHANGED <<linkVars, morphPc>>

\* ------------------------------------------------------------------------
\* Part 11: the Stores a server builds, one per request
\* (crates/hayride-runtime/src/server.rs, websocket.rs): each Store gets a
\* ResourceTable of its own and a clone of the server's SiloCtx, whose
\* thread registry is an Arc<DashMap> (silo.rs) that every clone points to
\* ------------------------------------------------------------------------
MaxStores == 2
MaxSpawned == 2

Stores == 1..MaxStores
SpawnedIds == 1..MaxSpawned

VARIABLES
    storeOpen,      \* per Store: handle_request has built it
    storeTable,     \* per Store: the thread ids its ResourceTable holds
    serverThreads,  \* the registry behind the server's SiloCtx
    lastCall        \* the last silo call: the Store it went through and its result

storeVars == <<storeOpen, storeTable, serverThreads, lastCall>>

NoCall == [store |-> 0, op |-> "none", id |-> 0, res |-> "none"]

StoresInit ==
    /\ storeOpen = [s \in Stores |-> FALSE]
    /\ storeTable = [s \in Stores |-> {}]
    /\ serverThreads = [i \in SpawnedIds |-> NoEntry]
    /\ lastCall = NoCall

\* the registry a Store's silo calls act on: self.silo_ctx.clone() shares
\* the Arc, so it is the server's for every Store
store_threads(s) == serverThreads

\* what status(id) and group() return through Store s
store_status(s, i) ==
    IF store_threads(s)[i].present THEN store_threads(s)[i].status ELSE "ThreadNotFound"

store_group(s) == {i \in SpawnedIds : store_threads(s)[i].present}

\* handle_request: Store::new with an empty ResourceTable
NewStore(s) ==
    /\ ~storeOpen[s]
    /\ storeOpen' = [storeOpen EXCEPT ![s] = TRUE]
    /\ UNCHANGED <<storeTable, serverThreads, lastCall>>

\* threads::Host::spawn through Store s: a fresh id is registered and the
\* Thread resource pushed to the Store's table
StoreSpawn(s, i) ==
    /\ storeOpen[s]
    /\ ~serverThreads[i].present
    /\ \A j \in SpawnedIds : j < i => serverThreads[j].present
    /\ serverThreads' = [serverThreads EXCEPT
                             ![i] = [present |-> TRUE, handle |-> TRUE,
                                     status |-> "Processing"]]
    /\ storeTable' = [storeTable EXCEPT ![s] = @ \cup {i}]
    /\ lastCall' = [store |-> s, op |-> "spawn", id |-> i, res |-> "Ok"]
    /\ UNCHANGED storeOpen

\* threads::Host::kill through Store s: the id is a string, any id serves
StoreKill(s, i) ==
    /\ storeOpen[s]
    /\ IF store_threads(s)[i].present /\ store_threads(s)[i].handle
       THEN /\ serverThreads' = [serverThreads EXCEPT ![i].handle = FALSE,
                                                      ![i].status = "Killed"]
            /\ lastCall' = [store |-> s, op |-> "kill", id |-> i, res |-> "Ok"]
       ELSE /\ serverThreads' = serverThreads
            /\ lastCall' = [store |-> s, op |-> "kill", id |-> i,
                            res |-> "ThreadNotFound"]
    /\ UNCHANGED <<storeOpen, storeTable>>

\* HostThread::wait through Store s, on a Thread resource of its table, once
\* the task is over: the handle is taken
StoreWait(s, i) ==
    /\ storeOpen[s]
    /\ i \in storeTable[s]
    /\ store_threads(s)[i].status # "Processing"
    /\ serverThreads' = [serverThreads EXCEPT ![i].handle = FALSE]
    /\ lastCall' = [store |-> s, op |-> "wait", id |-> i,
                    res |-> IF store_threads(s)[i].handle THEN "Ok"
                            ELSE "ThreadNotFound"]
    /\ UNCHANGED <<storeOpen, storeTable>>

\* threads::Host::status through Store s
StoreStatus(s, i) ==
    /\ storeOpen[s]
    /\ lastCall' = [store |-> s, op |-> "status", id |-> i, res |-> store_status(s, i)]
    /\ UNCHANGED <<storeOpen, storeTable, serverThreads>>

\* the child task of a spawned thread ends: update_status(Exited)
SpawnedExits(i) ==
    /\ serverThreads[i].present
    /\ serverThreads[i].status = "Processing"
    /\ serverThreads' = [serverThreads EXCEPT ![i].status = "Exited"]
    /\ UNCHANGED <<storeOpen, storeTable, lastCall>>

\* ------------------------------------------------------------------------
\* Part 12: native resources of the llama backend
\* (crates/hayride-llama/src/lib.rs): LlamaCppBackend owns the models,
\* process_compute owns a LlamaContextGuard and a LlamaSamplerGuard, locals
\* that are dropped when the function is left
\* ------------------------------------------------------------------------
MaxModels == 2
MaxComputes == 2

ModelNames == 1..MaxModels

VARIABLES
    backendLive,    \* llama_backend_init done, llama_backend_free not yet
    models,         \* LlamaCppBackend.models: the names loaded
    computes,       \* number of process_compute calls begun
    computePc,      \* where process_compute is: "idle", ..., "returned"
    computeRes,     \* its result: "none", "Ok", "Err", or "panic"
    contextGuard,   \* llama_context: "none", "live" or "freed"
    samplerGuard,   \* llama_sampler: "none", "live" or "freed"
    created,        \* the native objects the current compute has constructed
    released,       \* the native frees of the current compute, in order
    teardown,       \* the native frees of the backend's drop, in order
    nullSeen        \* a native constructor of the current compute returned null

llamaVars == <<backendLive, models, computes, computePc, computeRes, contextGuard,
               samplerGuard, created, released, teardown, nullSeen>>

\* LlamaCppBackend::new
LlamaInit ==
    /\ backendLive = TRUE
    /\ models = {}
    /\ computes = 0
    /\ computePc = "idle"
    /\ computeRes = "none"
    /\ contextGuard = "none"
    /\ samplerGuard = "none"
    /\ created = <<>>
    /\ released = <<>>
    /\ teardown = <<>>
    /\ nullSeen = FALSE

\* locals dropped in declaration order: the context guard before the sampler
drop_locals_declared_order(context, sampler) ==
    (IF context = "live" THEN <<"context">> ELSE <<>>)
        \o (IF sampler = "live" THEN <<"sampler">> ELSE <<>>)

\* leaving process_compute drops its locals in reverse order of declaration:
\* llama_sampler (declared second) before llama_context (declared first)
drop_locals(context, sampler) ==
    (IF sampler = "live" THEN <<"sampler">> ELSE <<>>)
        \o (IF context = "live" THEN <<"context">> ELSE <<>>)

Freed(guard) == IF guard = "live" THEN "freed" ELSE guard

\* process_compute is left with the given result
Leave(result) ==
    /\ computePc' = "returned"
    /\ computeRes' = result
    /\ released' = released \o drop_locals(contextGuard, samplerGuard)
    /\ contextGuard' = Freed(contextGuard)
    /\ samplerGuard' = Freed(samplerGuard)

\* BackendInner::load: a null model is an error, a model is kept by name
Load(name, null) ==
    /\ backendLive
    /\ computePc \in {"idle", "returned"}
    /\ name \notin models
    /\ models' = IF null THEN models ELSE models \cup {name}
    /\ UNCHANGED <<backendLive, computes, computePc, computeRes, contextGuard,
                   samplerGuard, created, released, teardown, nullSeen>>

\* process_compute up to the context guard: the options may fail to decode,
\* llama_new_context_with_model may return null
ComputeBegin(optionsOk, null) ==
    /\ backendLive
    /\ models # {}
    /\ computePc \in {"idle", "returned"}
    /\ computes < MaxComputes
    /\ computes' = computes + 1
    /\ nullSeen' = (optionsOk /\ null)
    /\ IF optionsOk /\ ~null
       THEN /\ computePc' = "context"
            /\ computeRes' = "none"
            /\ contextGuard' = "live"
            /\ created' = <<"context">>
       ELSE /\ computePc' = "returned"
            /\ computeRes' = "Err"
            /\ contextGuard' = "none"
            /\ created' = <<>>
    /\ samplerGuard' = "none"
    /\ released' = <<>>
    /\ UNCHANGED <<backendLive, models, teardown>>

\* tokenization of the prompt
Tokenize(ok) ==
    /\ computePc = "context"
    /\ IF ok
       THEN /\ computePc' = "tokenized"
            /\ UNCHANGED <<computeRes, contextGuard, samplerGuard, released>>
       ELSE Leave("Err")
    /\ UNCHANGED <<backendLive, models, computes, created, teardown, nullSeen>>

\* the prompt fits the batch, or is truncated (the drain may panic)
PromptFits(panics) ==
    /\ computePc = "tokenized"
    /\ IF panics
       THEN Leave("panic")
       ELSE /\ computePc' = "sized"
            /\ UNCHANGED <<computeRes, contextGuard, samplerGuard, released>>
    /\ UNCHANGED <<backendLive, models, computes, created, teardown, nullSeen>>

\* the batch grows: drop(llama_context), then a new context, null or not
BatchGrows(null) ==
    /\ computePc = "tokenized"
    /\ nullSeen' = null
    /\ created' = IF null THEN created ELSE Append(created, "context")
    /\ IF null
       THEN /\ computePc' = "returned"
            /\ computeRes' = "Err"
            /\ released' = Append(released, "context")
            /\ contextGuard' = "freed"
       ELSE /\ computePc' = "sized"
            /\ computeRes' = computeRes
            /\ released' = Append(released, "context")
            /\ contextGuard' = "live"
    /\ UNCHANGED <<backendLive, models, computes, samplerGuard, teardown>>

\* llama_sampler_chain_init and the sampler guard
CreateSampler(null) ==
    /\ computePc = "sized"
    /\ nullSeen' = null
    /\ IF null
       THEN /\ Leave("Err")
            /\ created' = created
       ELSE /\ computePc' = "decoding"
            /\ samplerGuard' = "live"
            /\ created' = Append(created, "sampler")
            /\ UNCHANGED <<computeRes, contextGuard, released>>
    /\ UNCHANGED <<backendLive, models, computes, teardown>>

\* the batch is filled and the main loop runs to its end, or fails
DecodeLoop(result) ==
    /\ computePc = "decoding"
    /\ Leave(result)
    /\ UNCHANGED <<backendLive, models, computes, created, teardown, nullSeen>>

RECURSIVE free_models(_)
\* the loop of Drop for LlamaCppBackend: one llama_free_model per model
free_models(S) ==
    IF S = {} THEN <<>>
    ELSE LET m == CHOOSE x \in S : TRUE IN <<"model">> \o free_models(S \ {m})

\* Drop for LlamaCppBackend
BackendDrop ==
    /\ backendLive
    /\ computePc \in {"idle", "returned"}
    /\ teardown' = free_models(models) \o <<"backend">>
    /\ models' = {}
    /\ backendLive' = FALSE
    /\ UNCHANGED <<computes, computePc, computeRes, contextGuard, samplerGuard,
                   created, released, nullSeen>>

\* ------------------------------------------------------------------------
\* Part 13: the ResourceTable of one Store as the host calls use it
\* (crates/hayride-runtime/src/silo/silo_impl.rs HostThread,
\* db/db_impl.rs): push on open and spawn, get / get_mut on every method,
\* delete only in the drop methods
\* ------------------------------------------------------------------------
MaxSlots == 2
MaxContents == 4

Slots == 1..MaxSlots

VARIABLES
    table,          \* the ResourceTable: slot -> the resource it holds, or Empty
    nextContents,   \* the next resource to be created (each one is distinct)
    obtained,       \* the handles the component was given: [slot, contents]
    droppedHandles, \* the handles the component has dropped
    lastDeref       \* the last method call on a handle and what table.get gave

tableVars == <<table, nextContents, obtained, droppedHandles, lastDeref>>

Empty == [kind |-> "none", contents |-> 0, closed |-> FALSE]

NoDeref == [slot |-> 0, op |-> "none", ok |-> FALSE, contents |-> 0, held |-> 0]

TableInit ==
    /\ table = [s \in Slots |-> Empty]
    /\ nextContents = 1
    /\ obtained = {}
    /\ droppedHandles = {}
    /\ lastDeref = NoDeref

\* the handles the component holds and has not dropped
LiveHandles == obtained \ droppedHandles

LiveAt(s) == {h \in LiveHandles : h.slot = s}

\* the resource the component holds a live handle to in slot s, 0 for none
HeldAt(s) == IF LiveAt(s) = {} THEN 0 ELSE (CHOOSE h \in LiveAt(s) : TRUE).contents

\* the methods of a resource kind
Methods(kind) ==
    IF kind = "thread" THEN {"id", "wait"} ELSE {"prepare", "close"}

\* a close that also removes the connection from the table
after_method_close_deletes(entry, op) ==
    IF op = "close" THEN Empty ELSE entry

\* what a method leaves in the slot: close marks the connection closed
\* through get_mut, every other method only reads through get
after_method(entry, op) ==
    IF op = "close" THEN [entry EXCEPT !.closed = TRUE] ELSE entry

\* db::Host::open and threads::Host::spawn: table().push(resource)
Push(kind, s) ==
    /\ nextContents <= MaxContents
    /\ table[s] = Empty
    /\ table' = [table EXCEPT ![s] = [kind |-> kind, contents |-> nextContents,
                                      closed |-> FALSE]]
    /\ obtained' = obtained \cup {[slot |-> s, contents |-> nextContents]}
    /\ nextContents' = nextContents + 1
    /\ UNCHANGED <<droppedHandles, lastDeref>>

\* a method called on the handle in slot s: table().get / get_mut, an error
\* when the slot is empty (HostThread::id and wait answer ThreadNotFound)
Method(s, op) ==
    /\ table[s] = Empty \/ op \in Methods(table[s].kind)
    /\ IF table[s] = Empty
       THEN /\ table' = table
            /\ lastDeref' = [slot |-> s, op |-> op, ok |-> FALSE, contents |-> 0,
                             held |-> HeldAt(s)]
       ELSE /\ table' = [table EXCEPT ![s] = after_method(table[s], op)]
            /\ lastDeref' = [slot |-> s, op |-> op,
                             ok |-> table'[s] # Empty,
                             contents |-> table'[s].contents,
                             held |-> HeldAt(s)]
    /\ UNCHANGED <<nextContents, obtained, droppedHandles>>

\* the drop methods: table().delete(resource)
Drop(s) ==
    /\ table[s] # Empty
    /\ table' = [table EXCEPT ![s] = Empty]
    /\ droppedHandles' = droppedHandles \cup LiveAt(s)
    /\ UNCHANGED <<nextContents, obtained, lastDeref>>

\* ------------------------------------------------------------------------
\* Part 14: DSN classification
\* (crates/hayride-db/src/connection_string.rs).  A connection string is a
\* sequence of characters; the string operations of the code are computed
\* on it
\* ------------------------------------------------------------------------
VARIABLES
    connection_string,  \* the DSN handed to ConnectionStringParser::new
    database_type       \* what get_database_type returned, "none" before

dsnVars == <<connection_string, database_type>>

\* ---- string operations ----
StartsWith(s, p) == Len(s) >= Len(p) /\ SubSeq(s, 1, Len(p)) = p

EndsWith(s, p) == Len(s) >= Len(p) /\ SubSeq(s, Len(s) - Len(p) + 1, Len(s)) = p

Contains(s, p) == \E k \in 1..(Len(s) - Len(p) + 1) : SubSeq(s, k, k + Len(p) - 1) = p

UpperCase == <<"A", "B", "C", "D", "Q", "S", "X">>

LowerCase == <<"a", "b", "c", "d", "q", "s", "x">>

\* char::to_ascii_lowercase
to_ascii_lowercase_char(c) ==
    IF \E k \in 1..Len(UpperCase) : UpperCase[k] = c
    THEN LowerCase[CHOOSE k \in 1..Len(UpperCase) : UpperCase[k] = c]
    ELSE c

to_ascii_lowercase(s) == [k \in 1..Len(s) |-> to_ascii_lowercase_char(s[k])]

\* str::trim
trim(s) ==
    LET inside == {k \in 1..Len(s) : s[k] # " "}
    IN IF inside = {} THEN <<>>
       ELSE SubSeq(s, CHOOSE k \in inside : \A j \in inside : k <= j,
                      CHOOSE k \in inside : \A j \in inside : j <= k)

Letters ==
    {"a", "b", "c", "d", "e", "f", "g", "h", "i", "j", "k", "l", "m", "n", "o", "p",
     "q", "r", "s", "t", "u", "v", "w", "x", "y", "z", "A", "B", "C", "D", "Q", "S", "X"}

Digits == {"0", "1", "2", "3", "4", "5", "6", "7", "8", "9"}

S_postgres == <<"p", "o", "s", "t", "g", "r", "e", "s">>

S_postgresql == <<"p", "o", "s", "t", "g", "r", "e", "s", "q", "l">>

S_mysql == <<"m", "y", "s", "q", "l">>

S_mariadb == <<"m", "a", "r", "i", "a", "d", "b">>

S_mysqlx == <<"m", "y", "s", "q", "l", "x">>

S_sqlite == <<"s", "q", "l", "i", "t", "e">>

S_file == <<"f", "i", "l", "e">>

S_sqlite_memory == <<"s", "q", "l", "i", "t", "e", ":", ":", "m", "e", "m", "o", "r", "y", ":">>

S_file_memory == <<"f", "i", "l", "e", ":", ":", "m", "e", "m", "o", "r", "y", ":">>

S_dot_slash == <<".", "/">>

S_dotdot_slash == <<".", ".", "/">>

S_slash == <<"/">>

S_db == <<".", "d", "b">>

S_sqlite_ext == <<".", "s", "q", "l", "i", "t", "e">>

S_sqlite3_ext == <<".", "s", "q", "l", "i", "t", "e", "3">>

S_at_tcp == <<"@", "t", "c", "p", "(">>

S_paren_slash == <<")", "/">>

S_mariadb_url == <<"m", "a", "r", "i", "a", "d", "b", ":", "/", "/">>

S_mysql_url == <<"m", "y", "s", "q", "l", ":", "/", "/">>

S_mysqlx_url == <<"m", "y", "s", "q", "l", "x", ":", "/", "/">>

S_slashes == <<"/", "/">>

LibpqKeys ==
    {<<"u", "s", "e", "r">>,
     <<"p", "a", "s", "s", "w", "o", "r", "d">>,
     <<"h", "o", "s", "t">>,
     <<"p", "o", "r", "t">>,
     <<"d", "b", "n", "a", "m", "e">>,
     <<"a", "p", "p", "l", "i", "c", "a", "t", "i", "o", "n", "_", "n", "a", "m", "e">>,
     <<"s", "s", "l", "m", "o", "d", "e">>,
     <<"o", "p", "t", "i", "o", "n", "s">>}


\* ---- Url::parse, as far as get_database_type depends on it ----
\* the position of the first ':' of s, 0 when there is none
FirstColon(s) ==
    LET at == {k \in 1..Len(s) : s[k] = ":"}
    IN IF at = {} THEN 0 ELSE CHOOSE k \in at : \A j \in at : k <= j

\* s begins with a URL scheme: a letter, then letters, digits, '+', '-', '.',
\* then ':'
HasScheme(s) ==
    LET c == FirstColon(s)
    IN /\ c > 1
       /\ s[1] \in Letters
       /\ \A k \in 2..(c - 1) : s[k] \in Letters \cup Digits \cup {"+", "-", "."}

\* what follows "scheme://" up to the next '/', '?' or '#'
Authority(s) ==
    LET rest == SubSeq(s, FirstColon(s) + 3, Len(s))
        stops == {k \in 1..Len(rest) : rest[k] \in {"/", "?", "#"}}
    IN IF stops = {} THEN rest
       ELSE SubSeq(rest, 1, (CHOOSE k \in stops : \A j \in stops : k <= j) - 1)

\* host and port of an authority: after the last '@', split at the last ':'
HostPort(a) ==
    LET ats == {k \in 1..Len(a) : a[k] = "@"}
    IN IF ats = {} THEN a
       ELSE SubSeq(a, (CHOOSE k \in ats : \A j \in ats : j <= k) + 1, Len(a))

ValidAuthority(a) ==
    LET hp == HostPort(a)
        colons == {k \in 1..Len(hp) : hp[k] = ":"}
        last == IF colons = {} THEN 0 ELSE CHOOSE k \in colons : \A j \in colons : j <= k
        host == IF last = 0 THEN hp ELSE SubSeq(hp, 1, last - 1)
        port == IF last = 0 THEN <<>> ELSE SubSeq(hp, last + 1, Len(hp))
    IN /\ \A k \in 1..Len(host) : host[k] \notin {" ", "<", ">", "^", "|", ":", "\\"}
       /\ \A k \in 1..Len(port) : port[k] \in Digits

\* Url::parse(s) is Ok: a scheme, and a well-formed authority when "//"
\* follows the scheme (a scheme followed by anything else is an opaque path)
url_parses(s) ==
    /\ HasScheme(s)
    /\ StartsWith(SubSeq(s, FirstColon(s) + 1, Len(s)), S_slashes)
           => ValidAuthority(Authority(s))

\* url.scheme().to_ascii_lowercase()
url_scheme(s) == to_ascii_lowercase(SubSeq(s, 1, FirstColon(s) - 1))

\* ---- seems_like_libpq_keywords ----
\* the tokens of split_whitespace, as pairs of first and last position
Tokens(s) ==
    {t \in (1..Len(s)) \X (1..Len(s)) :
        /\ t[1] <= t[2]
        /\ \A k \in t[1]..t[2] : s[k] # " "
        /\ (t[1] = 1 \/ s[t[1] - 1] = " ")
        /\ (t[2] = Len(s) \/ s[t[2] + 1] = " ")}

\* tok.split_once('='): the key before the first '=', for tokens holding one
EqTokens(s) == {t \in Tokens(s) : \E k \in t[1]..t[2] : s[k] = "="}

TokenKey(s, t) ==
    LET eqs == {k \in t[1]..t[2] : s[k] = "="}
    IN to_ascii_lowercase(SubSeq(s, t[1], (CHOOSE k \in eqs : \A j \in eqs : k <= j) - 1))

seems_like_libpq_keywords(s) ==
    \/ \E t \in EqTokens(s) : TokenKey(s, t) \in LibpqKeys
    \/ EqTokens(s) # {}

\* ---- fallback_detect ----
looks_like_path(s) ==
    \/ StartsWith(s, S_dot_slash)
    \/ StartsWith(s, S_dotdot_slash)
    \/ StartsWith(s, S_slash)
    \/ (Contains(s, <<"\\">>) /\ Len(s) >= 2 /\ s[2] = ":")

fallback_detect(s) ==
    LET lower == to_ascii_lowercase(s)
    IN IF lower = S_sqlite_memory \/ StartsWith(lower, S_file_memory) THEN "SQLite"
       ELSE IF \/ EndsWith(lower, S_db)
               \/ EndsWith(lower, S_sqlite_ext)
               \/ EndsWith(lower, S_sqlite3_ext)
               \/ looks_like_path(s)
       THEN "SQLite"
       ELSE IF seems_like_libpq_keywords(s) THEN "PostgreSQL"
       ELSE IF Contains(lower, S_at_tcp) /\ Contains(lower, S_paren_slash) THEN "MySQL"
       ELSE IF \/ StartsWith(lower, S_mariadb_url)
               \/ StartsWith(lower, S_mysql_url)
               \/ StartsWith(lower, S_mysqlx_url)
       THEN "MySQL"
       ELSE "Unknown"

\* the match on the scheme of a parsed URL
scheme_type(scheme) ==
    IF scheme \in {S_postgres, S_postgresql} THEN "PostgreSQL"
    ELSE IF scheme \in {S_mysql, S_mariadb, S_mysqlx} THEN "MySQL"
    ELSE IF scheme \in {S_sqlite, S_file} THEN "SQLite"
    ELSE "none"

\* a classification that tries the heuristics before the URL scheme
get_database_type_heuristics_first(dsn) ==
    LET s == trim(dsn)
        guess == fallback_detect(s)
    IN IF guess # "Unknown" THEN guess
       ELSE IF url_parses(s) /\ scheme_type(url_scheme(s)) # "none"
       THEN scheme_type(url_scheme(s))
       ELSE "Unknown"

\* ConnectionStringParser::new(dsn).get_database_type()
get_database_type(dsn) ==
    LET s == trim(dsn)
    IN IF url_parses(s) /\ scheme_type(url_scheme(s)) # "none"
       THEN scheme_type(url_scheme(s))
       ELSE fallback_detect(s)


Dsn_sqlite_url == <<"s", "q", "l", "i", "t", "e", ":", "/", "/", "f", "o", "o", ".", "d", "b">>

Dsn_postgres_url == <<"p", "o", "s", "t", "g", "r", "e", "s", ":", "/", "/", "u", "@", "h", "/", "d">>

Dsn_mysql_url == <<"m", "y", "s", "q", "l", ":", "/", "/", "u", "@", "h", "/", "d">>

Dsn_libpq == <<"u", "s", "e", "r", "=", "x", " ", "d", "b", "n", "a", "m", "e", "=", "y">>

Dsn_path == <<".", "/", "x", ".", "d", "b">>

Dsn_memory == <<"s", "q", "l", "i", "t", "e", ":", ":", "m", "e", "m", "o", "r", "y", ":">>

Dsn_garbage == <<"g", "a", "r", "b", "a", "g", "e">>

DsnPrefixes ==
    {<<>>,
     <<"s", "q", "l", "i", "t", "e", ":", "/", "/">>,
     <<"p", "o", "s", "t", "g", "r", "e", "s", ":", "/", "/">>,
     <<"m", "y", "s", "q", "l", ":", "/", "/">>,
     <<"m", "a", "r", "i", "a", "d", "b", ":", "/", "/">>,
     <<"f", "i", "l", "e", ":">>,
     <<".", "/">>,
     <<"s", "q", "l", "i", "t", "e", ":">>,
     <<"z", "z", ":", "/", "/">>,
     <<"C", ":", "\\">>,
     <<" ">>,
     <<"S", "Q", "L", "I", "T", "E", ":", "/", "/">>,
     <<"p", "o", "s", "t", "g", "r", "e", "s", "q", "l", ":", "/", "/">>}

DsnBodies ==
    {<<"u", "@", "h", "/", "d">>,
     <<"f", "o", "o">>,
     <<"u", "s", "e", "r", "=", "x", " ", "d", "b", "n", "a", "m", "e", "=", "y">>,
     <<":", "m", "e", "m", "o", "r", "y", ":">>,
     <<"g", "a", "r", "b", "a", "g", "e">>,
     <<"k", "=", "v">>,
     <<"u", ":", "p", "@", "t", "c", "p", "(", "h", ":", "3", "3", "0", "6", ")", "/", "d">>,
     <<"h", ":", "p", "o", "r", "t", "/", "d">>}

DsnSuffixes ==
    {<<>>,
     <<".", "d", "b">>,
     <<".", "D", "B">>,
     <<".", "s", "q", "l", "i", "t", "e", "3">>,
     <<" ">>}

\* the connection strings classified: every prefix, body and suffix combined
Dsns ==
    {p \o b \o x : p \in DsnPrefixes, b \in DsnBodies, x \in DsnSuffixes}
        \cup {Dsn_sqlite_url, Dsn_postgres_url, Dsn_mysql_url, Dsn_libpq, Dsn_path,
              Dsn_memory, Dsn_garbage}

DsnIdle ==
    /\ connection_string = <<>>
    /\ database_type = "none"

DsnInit ==
    /\ connection_string \in Dsns
    /\ database_type = "none"

\* ConnectionStringParser::new(..).get_database_type()
GetDatabaseType ==
    /\ database_type = "none"
    /\ database_type' = get_database_type(connection_string)
    /\ UNCHANGED connection_string

\* ------------------------------------------------------------------------
\* Part 15: morph resolution in the registry directory
\* (crates/hayride-utils/src/morphs/registry.rs).  Identifiers and directory
\* names are sequences of characters; Version::parse and the order of
\* semver::Version are computed on them
\* ------------------------------------------------------------------------
MaxEntries == 3

VARIABLES
    registry,   \* the entries of <root>/p: name -> "dir_wasm" (a directory
                \* holding n.wasm), "dir_empty" (a directory without it), "file"
    input,      \* the identifier handed to find_morph_path
    found       \* what find_morph_path returned, NoFind before the call

registryVars == <<registry, input, found>>

NoFind == [ok |-> FALSE, path |-> <<>>, err |-> "none"]

\* str::split_once
split_once(s, c) ==
    LET at == {k \in 1..Len(s) : s[k] = c}
        first == CHOOSE k \in at : \A j \in at : k <= j
    IN IF at = {} THEN [found |-> FALSE, head |-> s, tail |-> <<>>]
       ELSE [found |-> TRUE, head |-> SubSeq(s, 1, first - 1),
             tail |-> SubSeq(s, first + 1, Len(s))]

\* str::split
RECURSIVE split(_, _)
split(s, c) ==
    LET a == split_once(s, c)
    IN IF a.found THEN <<a.head>> \o split(a.tail, c) ELSE <<s>>

\* parse_identifier: package ':' name [ '@' version ]; the version is a
\* sequence of zero or one element
parse_identifier(id) ==
    LET a == split_once(id, ":")
        b == split_once(a.tail, "@")
    IN IF ~a.found THEN [some |-> FALSE, package |-> <<>>, name |-> <<>>, version |-> <<>>]
       ELSE [some |-> TRUE, package |-> a.head,
             name |-> IF b.found THEN b.head ELSE a.tail,
             version |-> IF b.found THEN <<b.tail>> ELSE <<>>]

\* ---- semver::Version::parse ----
DigitChars == <<"0", "1", "2", "3", "4", "5", "6", "7", "8", "9">>

all_digits(id) == \A k \in 1..Len(id) : id[k] \in Digits

RECURSIVE to_number(_)
to_number(d) ==
    IF d = <<>> THEN 0
    ELSE to_number(SubSeq(d, 1, Len(d) - 1)) * 10
         + (CHOOSE v \in 0..9 : DigitChars[v + 1] = d[Len(d)])

\* a numeric identifier: digits without a leading zero
is_numeric(id) == id # <<>> /\ all_digits(id) /\ (Len(id) > 1 => id[1] # "0")

\* a pre-release identifier
valid_pre_id(id) ==
    /\ id # <<>>
    /\ \A k \in 1..Len(id) : id[k] \in Letters \cup Digits \cup {"-"}
    /\ all_digits(id) => is_numeric(id)

\* a build identifier
valid_build_id(id) ==
    /\ id # <<>>
    /\ \A k \in 1..Len(id) : id[k] \in Letters \cup Digits \cup {"-"}

version_parse(name) ==
    LET plus == split_once(name, "+")
        dash == split_once(plus.head, "-")
        core == split(dash.head, ".")
        pre == IF dash.found THEN split(dash.tail, ".") ELSE <<>>
        build == IF plus.found THEN split(plus.tail, ".") ELSE <<>>
        valid == /\ Len(core) = 3
                 /\ \A k \in 1..Len(core) : is_numeric(core[k])
                 /\ \A k \in 1..Len(pre) : valid_pre_id(pre[k])
                 /\ \A k \in 1..Len(build) : valid_build_id(build[k])
    IN IF valid
       THEN [ok |-> TRUE, major |-> to_number(core[1]), minor |-> to_number(core[2]),
             patch |-> to_number(core[3]), pre |-> pre, build |-> build]
       ELSE [ok |-> FALSE, major |-> 0, minor |-> 0, patch |-> 0, pre |-> <<>>,
             build |-> <<>>]

\* ---- the order of semver::Version ----
AsciiOrder ==
    <<"-", "0", "1", "2", "3", "4", "5", "6", "7", "8", "9",
      "A", "B", "C", "D", "Q", "S", "X",
      "a", "b", "c", "d", "e", "f", "g", "h", "i", "j", "k", "l", "m", "n", "o", "p",
      "q", "r", "s", "t", "u", "v", "w", "x", "y", "z">>

char_rank(c) == CHOOSE k \in 1..Len(AsciiOrder) : AsciiOrder[k] = c

int_cmp(a, b) == IF a < b THEN -1 ELSE IF a > b THEN 1 ELSE 0

\* the order of str: -1, 0 or 1
RECURSIVE str_cmp(_, _)
str_cmp(a, b) ==
    IF a = <<>> /\ b = <<>> THEN 0
    ELSE IF a = <<>> THEN -1
    ELSE IF b = <<>> THEN 1
    ELSE IF a[1] # b[1] THEN int_cmp(char_rank(a[1]), char_rank(b[1]))
    ELSE str_cmp(Tail(a), Tail(b))

\* two identifiers: numeric ones by value and below alphanumeric ones,
\* alphanumeric ones in ASCII order
id_cmp(a, b) ==
    IF all_digits(a) /\ all_digits(b) THEN int_cmp(to_number(a), to_number(b))
    ELSE IF all_digits(a) THEN -1
    ELSE IF all_digits(b) THEN 1
    ELSE str_cmp(a, b)

RECURSIVE ids_cmp(_, _)
ids_cmp(a, b) ==
    IF a = <<>> /\ b = <<>> THEN 0
    ELSE IF a = <<>> THEN -1
    ELSE IF b = <<>> THEN 1
    ELSE IF id_cmp(a[1], b[1]) # 0 THEN id_cmp(a[1], b[1])
    ELSE ids_cmp(Tail(a), Tail(b))

\* Prerelease: a version without pre-release is above every pre-release
pre_cmp(a, b) ==
    IF a = <<>> /\ b = <<>> THEN 0
    ELSE IF a = <<>> THEN 1
    ELSE IF b = <<>> THEN -1
    ELSE ids_cmp(a, b)

\* semver precedence: major, minor, patch, pre-release
precedence_cmp(v, w) ==
    IF v.major # w.major THEN int_cmp(v.major, w.major)
    ELSE IF v.minor # w.minor THEN int_cmp(v.minor, w.minor)
    ELSE IF v.patch # w.patch THEN int_cmp(v.patch, w.patch)
    ELSE pre_cmp(v.pre, w.pre)

\* Ord of Version: precedence, then the build metadata
version_cmp(v, w) ==
    IF precedence_cmp(v, w) # 0 THEN precedence_cmp(v, w) ELSE ids_cmp(v.build, w.build)

\* ---- find_morph_path ----

V_1_0_0 == <<"1", ".", "0", ".", "0">>

V_1_2_0 == <<"1", ".", "2", ".", "0">>

V_2_0_0_beta_1 == <<"2", ".", "0", ".", "0", "-", "b", "e", "t", "a", ".", "1">>

V_2_0_0_beta_2 == <<"2", ".", "0", ".", "0", "-", "b", "e", "t", "a", ".", "2">>

V_2_0_0_beta_11 == <<"2", ".", "0", ".", "0", "-", "b", "e", "t", "a", ".", "1", "1">>

V_10_0_0 == <<"1", "0", ".", "0", ".", "0">>

V_1_2_0_build == <<"1", ".", "2", ".", "0", "+", "b">>

N_latest == <<"l", "a", "t", "e", "s", "t">>

N_1_2 == <<"1", ".", "2">>

N_01_0_0 == <<"0", "1", ".", "0", ".", "0">>

Id_versioned == <<"p", ":", "n", "@", "1", ".", "2", ".", "0">>

Id_latest == <<"p", ":", "n">>

Id_invalid == <<"p", "n">>

Id_missing_package == <<"q", ":", "n">>

EntryNames ==
    {V_1_0_0,
     V_1_2_0,
     V_2_0_0_beta_1,
     V_2_0_0_beta_2,
     V_2_0_0_beta_11,
     V_10_0_0,
     V_1_2_0_build,
     N_latest,
     N_1_2,
     N_01_0_0}

Identifiers == {Id_versioned, Id_latest, Id_invalid, Id_missing_package}

PackageName == <<"p">>

WasmExtension == <<".", "w", "a", "s", "m">>

EntryKinds == {"dir_wasm", "dir_empty", "file"}

\* the directories of <root>/p with at most MaxEntries entries
Registries ==
    UNION {[names -> EntryKinds] :
              names \in {e \in SUBSET EntryNames : Cardinality(e) <= MaxEntries}}

\* the entries that are directories and whose names parse as versions
version_dirs(reg) ==
    {e \in DOMAIN reg : reg[e] \in {"dir_wasm", "dir_empty"} /\ version_parse(e).ok}

\* a selection that takes the least version instead
oldest_version(reg) ==
    CHOOSE e \in version_dirs(reg) :
        \A o \in version_dirs(reg) : version_cmp(version_parse(e), version_parse(o)) <= 0

\* max_by_key over the parsed versions
latest_version(reg) ==
    CHOOSE e \in version_dirs(reg) :
        \A o \in version_dirs(reg) : version_cmp(version_parse(o), version_parse(e)) <= 0

\* Path::canonicalize: the path when the file exists, an error otherwise
canonicalize(reg, path) ==
    IF /\ path[1] = PackageName
       /\ path[2] \in DOMAIN reg
       /\ reg[path[2]] = "dir_wasm"
       /\ path[3] = <<"n">> \o WasmExtension
    THEN [ok |-> TRUE, path |-> path, err |-> "none"]
    ELSE [ok |-> FALSE, path |-> path, err |-> "NotFound"]

find_morph_path(reg, id) ==
    LET parsed == parse_identifier(id)
        file == parsed.name \o WasmExtension
    IN IF ~parsed.some THEN [ok |-> FALSE, path |-> <<>>, err |-> "InvalidIdentifier"]
       ELSE IF parsed.version # <<>>
       THEN canonicalize(reg, <<parsed.package, parsed.version[1], file>>)
       ELSE IF parsed.package # PackageName
       THEN [ok |-> FALSE, path |-> <<>>, err |-> "ReadDir"]
       ELSE IF version_dirs(reg) = {}
       THEN [ok |-> FALSE, path |-> <<>>, err |-> "NoVersions"]
       ELSE canonicalize(reg, <<parsed.package, latest_version(reg), file>>)

RegistryIdle ==
    /\ registry = <<>>
    /\ input = <<>>
    /\ found = NoFind

RegistryInit ==
    /\ registry \in Registries
    /\ input \in Identifiers
    /\ found = NoFind

FindMorphPath ==
    /\ found = NoFind
    /\ found' = find_morph_path(registry, input)
    /\ UNCHANGED <<registry, input>>

\* ------------------------------------------------------------------------
\* Part 16: the failures of process_compute and what reaches the stream
\* (crates/hayride-llama/src/lib.rs): compute runs it without a writer,
\* compute_stream runs it in a task with the write half of a duplex stream
\* ------------------------------------------------------------------------
MaxIterations == 2     \* iterations of the decode loop followed

VARIABLES
    stage,        \* where process_compute is
    writerSet,    \* the writer argument is Some (compute_stream)
    readerAlive,  \* the read half of the duplex stream has not been dropped
    errorText,    \* the text of an error has been written to the stream
    pieces,       \* number of token pieces written to the stream
    outcome,      \* what process_compute returned, "none" while it runs
    res,          \* this iteration's first llama_decode result in a sequence, <<>> before it
    retry_res,    \* this iteration's second llama_decode result, likewise
    decodes,      \* llama_decode calls made in this iteration
    kv_clears,    \* clear_kv_cache calls made for a failed decode in this iteration
    iteration     \* iterations of the loop completed

computeVars == <<stage, writerSet, readerAlive, errorText, pieces, outcome, res, retry_res,
                 decodes, kv_clears, iteration>>

\* results of llama_decode
DecodeCodes == {0, -3, -1, 1}

ProcessComputeInit ==
    /\ stage = "idle"
    /\ writerSet = FALSE
    /\ readerAlive = TRUE
    /\ errorText = FALSE
    /\ pieces = 0
    /\ outcome = "none"
    /\ res = <<>>
    /\ retry_res = <<>>
    /\ decodes = 0
    /\ kv_clears = 0
    /\ iteration = 0

\* a retry rule that retries after every failure code
retry_after_any(code) == code # 0

\* the match on the result of llama_decode: only -3 is retried
retry_after(code) == code = -3

\* write_output to the duplex stream: it fails once the read half is gone
write_output_ok == readerAlive

\* return Err(err) without writing
Return(err) ==
    /\ stage' = "returned"
    /\ outcome' = err
    /\ UNCHANGED <<errorText, pieces>>

\* if let Some(writer) = writer { write_output(writer, text)?; } return Err(err)
WriteAndReturn(err) ==
    /\ stage' = "returned"
    /\ IF ~writerSet
       THEN outcome' = err /\ UNCHANGED errorText
       ELSE IF write_output_ok
       THEN outcome' = err /\ errorText' = TRUE
       ELSE outcome' = "FailedToWriteOutput" /\ UNCHANGED errorText
    /\ UNCHANGED pieces

\* compute (no writer) or compute_stream (the spawned task) calls process_compute
ProcessCompute(stream) ==
    /\ stage = "idle"
    /\ stage' = "options"
    /\ writerSet' = stream
    /\ UNCHANGED <<readerAlive, errorText, pieces, outcome, res, retry_res, decodes,
                   kv_clears, iteration>>

\* the options tensor is decoded: String::from_utf8 and serde_json::from_str
DecodeOptions(ok) ==
    /\ stage = "options"
    /\ IF ok THEN stage' = "context" /\ UNCHANGED <<errorText, pieces, outcome>>
       ELSE Return("FailedDecoding")
    /\ UNCHANGED <<writerSet, readerAlive, res, retry_res, decodes, kv_clears, iteration>>

\* llama_new_context_with_model and LlamaContextGuard::new
NewContext(null) ==
    /\ stage = "context"
    /\ IF ~null THEN stage' = "prompt" /\ UNCHANGED <<errorText, pieces, outcome>>
       ELSE Return("FailedToLoadModel")
    /\ UNCHANGED <<writerSet, readerAlive, res, retry_res, decodes, kv_clears, iteration>>

\* String::from_utf8(prompt)
PromptString(ok) ==
    /\ stage = "prompt"
    /\ IF ok THEN stage' = "tokenize" /\ UNCHANGED <<errorText, pieces, outcome>>
       ELSE WriteAndReturn("FailedTokenization")
    /\ UNCHANGED <<writerSet, readerAlive, res, retry_res, decodes, kv_clears, iteration>>

\* CString::new and llama_tokenize: "nul" is a prompt with an interior NUL,
\* "negative" a negative prompt_size
TokenizePrompt(r) ==
    /\ stage = "tokenize"
    /\ CASE r = "ok" -> stage' = "sizing" /\ UNCHANGED <<errorText, pieces, outcome>>
         [] r = "nul" -> Return("FailedTokenization")
         [] r = "negative" -> WriteAndReturn("FailedTokenization")
    /\ UNCHANGED <<writerSet, readerAlive, res, retry_res, decodes, kv_clears, iteration>>

\* prompt sizing: the context recreated for a larger batch may be null
SizePrompt(null) ==
    /\ stage = "sizing"
    /\ IF ~null THEN stage' = "sampler" /\ UNCHANGED <<errorText, pieces, outcome>>
       ELSE Return("FailedToLoadModel")
    /\ UNCHANGED <<writerSet, readerAlive, res, retry_res, decodes, kv_clears, iteration>>

\* llama_sampler_chain_init and LlamaSamplerGuard::new
NewSampler(null) ==
    /\ stage = "sampler"
    /\ IF ~null THEN stage' = "batch" /\ UNCHANGED <<errorText, pieces, outcome>>
       ELSE Return("FailedToLoadModel")
    /\ UNCHANGED <<writerSet, readerAlive, res, retry_res, decodes, kv_clears, iteration>>

\* the prompt's tokens are added to the batch
FillBatch(ok) ==
    /\ stage = "batch"
    /\ IF ok THEN stage' = "loop" /\ UNCHANGED <<errorText, pieces, outcome>>
       ELSE WriteAndReturn("BatchFull")
    /\ UNCHANGED <<writerSet, readerAlive, res, retry_res, decodes, kv_clears, iteration>>

\* the while condition is false: the result tensor is returned
LoopDone ==
    /\ stage = "loop"
    /\ iteration = MaxIterations
    /\ stage' = "returned"
    /\ outcome' = "Ok"
    /\ UNCHANGED <<writerSet, readerAlive, errorText, pieces, res, retry_res, decodes,
                   kv_clears, iteration>>

\* llama_decode on the current batch
LlamaDecode(code) ==
    /\ stage = "loop"
    /\ iteration < MaxIterations
    /\ res' = <<code>>
    /\ retry_res' = <<>>
    /\ decodes' = 1
    /\ IF code = 0
       THEN stage' = "sample" /\ kv_clears' = 0 /\ UNCHANGED <<errorText, pieces, outcome>>
       ELSE IF retry_after(code)
       THEN stage' = "retry" /\ kv_clears' = 1 /\ UNCHANGED <<errorText, pieces, outcome>>
       ELSE kv_clears' = 0 /\ WriteAndReturn("FailedTokenization")
    /\ UNCHANGED <<writerSet, readerAlive, iteration>>

\* the second llama_decode on the same batch, after clear_kv_cache
RetryDecode(code) ==
    /\ stage = "retry"
    /\ retry_res' = <<code>>
    /\ decodes' = decodes + 1
    /\ IF code = 0
       THEN stage' = "sample" /\ UNCHANGED <<errorText, pieces, outcome>>
       ELSE WriteAndReturn("FailedTokenization")
    /\ UNCHANGED <<writerSet, readerAlive, res, kv_clears, iteration>>

\* the next token is sampled: end of generation, a piece that cannot be
\* converted, a batch that refuses the token, or a piece written to the stream
SampleNext(o) ==
    /\ stage = "sample"
    /\ CASE o = "eog" ->
              /\ stage' = "returned"
              /\ outcome' = "Ok"
              /\ UNCHANGED <<errorText, pieces, iteration>>
         [] o = "piece_fails" ->
              /\ WriteAndReturn("FailedTokenization")
              /\ UNCHANGED iteration
         [] o = "token" ->
              IF writerSet /\ ~write_output_ok
              THEN /\ Return("FailedToWriteOutput")
                   /\ UNCHANGED iteration
              ELSE /\ stage' = "loop"
                   /\ pieces' = IF writerSet THEN pieces + 1 ELSE pieces
                   /\ iteration' = iteration + 1
                   /\ UNCHANGED <<errorText, outcome>>
         [] o = "batch_fails" ->
              IF writerSet /\ ~write_output_ok
              THEN /\ Return("FailedToWriteOutput")
                   /\ UNCHANGED iteration
              ELSE /\ stage' = "returned"
                   /\ pieces' = IF writerSet THEN pieces + 1 ELSE pieces
                   /\ IF writerSet
                      THEN outcome' = "BatchFull" /\ errorText' = TRUE
                      ELSE outcome' = "BatchFull" /\ UNCHANGED errorText
                   /\ UNCHANGED iteration
    /\ UNCHANGED <<writerSet, readerAlive, res, retry_res, decodes, kv_clears>>

\* the Tensor-Stream is dropped: its producer task is aborted and the read
\* half of the duplex stream goes with it
ReaderDropped ==
    /\ writerSet
    /\ readerAlive
    /\ readerAlive' = FALSE
    /\ UNCHANGED <<stage, writerSet, errorText, pieces, outcome, res, retry_res, decodes,
                   kv_clears, iteration>>

\* ------------------------------------------------------------------------
\* Part 17: the life of a stream's producer task
\* (TensorStream::new in crates/hayride-host-traits/src/ai/nn/nn.rs,
\* WebsocketInputPipe::new in crates/hayride-runtime/src/websocket.rs, and
\* compute_stream / write_output in crates/hayride-llama/src/lib.rs).  The
\* producer task reads its source and sends to a bounded channel; the stream
\* holds the receiver and the task's AbortOnDropJoinHandle.  The source of a
\* Tensor-Stream is the read half of a duplex stream that process_compute
\* writes to; the source of a WebSocket input stream is the socket
\* ------------------------------------------------------------------------
MaxTokens == 3       \* pieces the computation writes at most
DuplexCap == 2       \* pieces the duplex stream buffers (io::duplex(4096))

VARIABLES
    consumer,        \* the stream: "none", "open", "dropped"
    sourceKind,      \* "duplex" (Tensor-Stream) or "socket" (WebSocket input)
    abortRequested,  \* the join handle was dropped and has aborted the task
    producerPc,      \* "none", "reading", "sending", "terminated"
    sendItem,        \* what the producer task is sending
    sawEof,          \* the producer task has read end-of-input
    itemQueue,       \* the channel between the producer task and the stream
    duplex,          \* pieces buffered in the duplex stream
    llm,             \* the computation: "absent", "decoding", "writing",
                     \* "stopped" (a write failed), "finished"
    tokens           \* pieces the computation has produced

producerVars == <<consumer, sourceKind, abortRequested, producerPc, sendItem, sawEof,
                  itemQueue, duplex, llm, tokens>>

ProducerInit ==
    /\ consumer = "none"
    /\ sourceKind = "duplex"
    /\ abortRequested = FALSE
    /\ producerPc = "none"
    /\ sendItem = "none"
    /\ sawEof = FALSE
    /\ itemQueue = <<>>
    /\ duplex = 0
    /\ llm = "absent"
    /\ tokens = 0

\* a join handle that detaches the task when it is dropped
drop_join_handle_detaches(pc) == FALSE

\* AbortOnDropJoinHandle::drop: the task is aborted unless it has ended
drop_join_handle(pc) == pc # "terminated"

\* the read half of the duplex stream lives in the producer task
read_half_alive == producerPc \in {"reading", "sending"}

\* the write half lives in process_compute
write_half_alive == llm \in {"decoding", "writing"}

\* compute_stream (kind "duplex") or the WebSocket upgrade (kind "socket")
NewStream(kind) ==
    /\ consumer = "none"
    /\ consumer' = "open"
    /\ sourceKind' = kind
    /\ producerPc' = "reading"
    /\ llm' = IF kind = "duplex" THEN "decoding" ELSE "absent"
    /\ UNCHANGED <<abortRequested, sendItem, sawEof, itemQueue, duplex, tokens>>

\* process_compute: one more iteration of the decode loop yields a piece
LlmDecode ==
    /\ llm = "decoding"
    /\ tokens < MaxTokens
    /\ tokens' = tokens + 1
    /\ llm' = "writing"
    /\ UNCHANGED <<consumer, sourceKind, abortRequested, producerPc, sendItem, sawEof,
                   itemQueue, duplex>>

\* process_compute: the loop ends and the writer is dropped
LlmFinish ==
    /\ llm = "decoding"
    /\ llm' = "finished"
    /\ UNCHANGED <<consumer, sourceKind, abortRequested, producerPc, sendItem, sawEof,
                   itemQueue, duplex, tokens>>

\* write_output: write_all on the duplex stream fails once the read half is
\* gone, and waits while the buffer is full
LlmWrite ==
    /\ llm = "writing"
    /\ IF ~read_half_alive
       THEN llm' = "stopped" /\ UNCHANGED duplex
       ELSE /\ duplex < DuplexCap
            /\ duplex' = duplex + 1
            /\ llm' = "decoding"
    /\ UNCHANGED <<consumer, sourceKind, abortRequested, producerPc, sendItem, sawEof,
                   itemQueue, tokens>>

\* producer task: reader.read_buf on the duplex stream returns buffered
\* bytes, or 0 once the write half is gone, and waits otherwise
ProducerReadDuplex ==
    /\ producerPc = "reading"
    /\ sourceKind = "duplex"
    /\ IF duplex > 0
       THEN /\ duplex' = duplex - 1
            /\ sendItem' = "data"
            /\ UNCHANGED sawEof
       ELSE /\ ~write_half_alive
            /\ sendItem' = "eof"
            /\ sawEof' = TRUE
            /\ UNCHANGED duplex
    /\ producerPc' = "sending"
    /\ UNCHANGED <<consumer, sourceKind, abortRequested, itemQueue, llm, tokens>>

\* producer task: reader.read_buf on the socket returns data, 0 or an error
\* whenever the peer makes it so
ProducerReadSocket(r) ==
    /\ producerPc = "reading"
    /\ sourceKind = "socket"
    /\ sawEof => r = "eof"
    /\ sendItem' = r
    /\ sawEof' = (sawEof \/ r = "eof")
    /\ producerPc' = "sending"
    /\ UNCHANGED <<consumer, sourceKind, abortRequested, itemQueue, duplex, llm, tokens>>

\* producer task: sender.send(..).await fails when the receiver is gone
\* (break), waits while the channel is full, and otherwise queues the item
ProducerSendItem ==
    /\ producerPc = "sending"
    /\ IF consumer = "dropped"
       THEN /\ producerPc' = "terminated"
            /\ UNCHANGED itemQueue
       ELSE /\ Len(itemQueue) < TensorChannel
            /\ itemQueue' = Append(itemQueue, sendItem)
            /\ producerPc' = "reading"
    /\ sendItem' = "none"
    /\ UNCHANGED <<consumer, sourceKind, abortRequested, sawEof, duplex, llm, tokens>>

\* the stream's read takes an item from the channel
ConsumerReceives ==
    /\ consumer = "open"
    /\ itemQueue # <<>>
    /\ itemQueue' = Tail(itemQueue)
    /\ UNCHANGED <<consumer, sourceKind, abortRequested, producerPc, sendItem, sawEof,
                   duplex, llm, tokens>>

\* the stream is dropped: the receiver goes, then the join handle
ConsumerDrops ==
    /\ consumer = "open"
    /\ consumer' = "dropped"
    /\ itemQueue' = <<>>
    /\ abortRequested' = drop_join_handle(producerPc)
    /\ UNCHANGED <<sourceKind, producerPc, sendItem, sawEof, duplex, llm, tokens>>

\* the runtime cancels the aborted task at the await it is suspended in; the
\* task's reader is dropped with it
ProducerAborted ==
    /\ abortRequested
    /\ producerPc \in {"reading", "sending"}
    /\ producerPc' = "terminated"
    /\ sendItem' = "none"
    /\ UNCHANGED <<consumer, sourceKind, abortRequested, sawEof, itemQueue, duplex, llm,
                   tokens>>

\* ------------------------------------------------------------------------
\* Part 18: the background task of a PostgreSQL connection
\* (crates/hayride-db/src/postgres.rs): new spawns a task that selects
\* between the connection future and the cancellation token; close and Drop
\* cancel the token
\* ------------------------------------------------------------------------
MaxConnections == 3

Connections == 1..MaxConnections

VARIABLES
    pgConnection,   \* the PostgresDBConnection: "none", "open", "closed", "dropped"
    pgClient,       \* the Option in the connection's Mutex is Some
    pgToken,        \* the cancellation token has been cancelled
    pgTask          \* the task spawned by new: "none", "running", "ended"

postgresVars == <<pgConnection, pgClient, pgToken, pgTask>>

PostgresInit ==
    /\ pgConnection = [c \in Connections |-> "none"]
    /\ pgClient = [c \in Connections |-> FALSE]
    /\ pgToken = [c \in Connections |-> FALSE]
    /\ pgTask = [c \in Connections |-> "none"]

\* a Drop that leaves the token as it is
drop_keeps_token(token) == token

\* Drop for PostgresDBConnection: self.cancellation_token.cancel()
drop_cancels(token) == TRUE

\* PostgresDBConnection::new: connect, then spawn the task
PostgresNew(c) ==
    /\ pgConnection[c] = "none"
    /\ pgConnection' = [pgConnection EXCEPT ![c] = "open"]
    /\ pgClient' = [pgClient EXCEPT ![c] = TRUE]
    /\ pgTask' = [pgTask EXCEPT ![c] = "running"]
    /\ UNCHANGED pgToken

\* DBConnection::close: cancel the token, take the client
PostgresClose(c) ==
    /\ pgConnection[c] \in {"open", "closed"}
    /\ pgConnection' = [pgConnection EXCEPT ![c] = "closed"]
    /\ pgToken' = [pgToken EXCEPT ![c] = TRUE]
    /\ pgClient' = [pgClient EXCEPT ![c] = FALSE]
    /\ UNCHANGED pgTask

\* the connection is dropped, closed before or not
PostgresDrop(c) ==
    /\ pgConnection[c] \in {"open", "closed"}
    /\ pgConnection' = [pgConnection EXCEPT ![c] = "dropped"]
    /\ pgToken' = [pgToken EXCEPT ![c] = drop_cancels(pgToken[c])]
    /\ UNCHANGED <<pgClient, pgTask>>

\* the task: cancel_clone.cancelled() resolves
TaskCancelled(c) ==
    /\ pgTask[c] = "running"
    /\ pgToken[c]
    /\ pgTask' = [pgTask EXCEPT ![c] = "ended"]
    /\ UNCHANGED <<pgConnection, pgClient, pgToken>>

\* the task: the connection future resolves (the server or the network ends it)
ConnectionEnds(c) ==
    /\ pgTask[c] = "running"
    /\ pgTask' = [pgTask EXCEPT ![c] = "ended"]
    /\ UNCHANGED <<pgConnection, pgClient, pgToken>>

\* ------------------------------------------------------------------------
\* Part 19: a Rows cursor (SQLiteRows in crates/hayride-db/src/sqlite.rs,
\* PostgresRows in crates/hayride-db/src/postgres.rs).  A value is a record
\* of its type and a number standing for its content
\* ------------------------------------------------------------------------
MaxResult == 3      \* rows of a result at most
MaxNexts == 5       \* next() calls followed on a cursor

VARIABLES
    rowsKind,       \* "sqlite" or "postgres"
    rowsResult,     \* the rows the database produced for the query, in order
    rowsFailAt,     \* PostgreSQL: the stream fails in place of this row, 0 for never
    rowsVec,        \* SQLiteRows.rows: the rows collected by query
    current_index,  \* SQLiteRows.current_index
    rowStream,      \* PostgresRows.stream: the items still to come
    finished,       \* PostgresRows.finished
    nextReturns     \* what the next() calls returned, in call order

rowsVars == <<rowsKind, rowsResult, rowsFailAt, rowsVec, current_index, rowStream, finished,
              nextReturns>>

\* the row of SELECT 1 as SQLite produces it, and as PostgreSQL does
SqliteOne == <<[t |-> "Integer", v |-> 1]>>

PostgresOne == <<[t |-> "INT4", v |-> 1]>>

SourceRows(kind) ==
    IF kind = "sqlite"
    THEN {SqliteOne,
          <<[t |-> "Integer", v |-> 2], [t |-> "Text", v |-> 7]>>,
          <<[t |-> "Null", v |-> 0], [t |-> "Real", v |-> 3]>>}
    ELSE {PostgresOne,
          <<[t |-> "INT8", v |-> 2], [t |-> "TEXT", v |-> 7]>>,
          <<[t |-> "INT2", v |-> 4], [t |-> "BOOL", v |-> 1]>>}

QueryResults(kind) == UNION {[1..k -> SourceRows(kind)] : k \in 0..MaxResult}

\* a conversion that turns Integer into Int32
sqlite_value_to_dbvalue_int32(x) ==
    CASE x.t = "Null" -> [t |-> "Null", v |-> 0]
      [] x.t = "Integer" -> [t |-> "Int32", v |-> x.v]
      [] x.t = "Real" -> [t |-> "Double", v |-> x.v]
      [] x.t = "Text" -> [t |-> "Str", v |-> x.v]
      [] x.t = "Blob" -> [t |-> "Binary", v |-> x.v]

\* the match of sqlite_row_to_dbvalue_row on a ValueRef
sqlite_value_to_dbvalue(x) ==
    CASE x.t = "Null" -> [t |-> "Null", v |-> 0]
      [] x.t = "Integer" -> [t |-> "Int64", v |-> x.v]
      [] x.t = "Real" -> [t |-> "Double", v |-> x.v]
      [] x.t = "Text" -> [t |-> "Str", v |-> x.v]
      [] x.t = "Blob" -> [t |-> "Binary", v |-> x.v]

sqlite_row_to_dbvalue_row(row) == [i \in 1..Len(row) |-> sqlite_value_to_dbvalue(row[i])]

\* the match of postgres_value_to_dbvalue on the column type
postgres_value_to_dbvalue(x) ==
    CASE x.t = "BOOL" -> [t |-> "Boolean", v |-> x.v]
      [] x.t \in {"INT2", "INT4"} -> [t |-> "Int32", v |-> x.v]
      [] x.t = "INT8" -> [t |-> "Int64", v |-> x.v]
      [] x.t = "FLOAT4" -> [t |-> "Float", v |-> x.v]
      [] x.t = "FLOAT8" -> [t |-> "Double", v |-> x.v]
      [] x.t = "TEXT" -> [t |-> "Str", v |-> x.v]
      [] x.t = "BYTEA" -> [t |-> "Binary", v |-> x.v]

row_to_dbvalue_row(row) == [i \in 1..Len(row) |-> postgres_value_to_dbvalue(row[i])]

\* the items of the stream query_raw returns: the rows, cut short by an error
\* when the connection fails
StreamItems(result, failAt) ==
    IF failAt = 0
    THEN [i \in 1..Len(result) |-> [ok |-> TRUE, row |-> result[i]]]
    ELSE [i \in 1..failAt |->
             IF i < failAt THEN [ok |-> TRUE, row |-> result[i]]
             ELSE [ok |-> FALSE, row |-> <<>>]]

\* SQLiteStatement::query collects the converted rows; PostgresStatement::query
\* keeps the stream
RowsOpen(kind, result, failAt) ==
    /\ rowsKind = kind
    /\ rowsResult = result
    /\ rowsFailAt = failAt
    /\ rowsVec = IF kind = "sqlite"
                 THEN [i \in 1..Len(result) |-> sqlite_row_to_dbvalue_row(result[i])]
                 ELSE <<>>
    /\ current_index = 0
    /\ rowStream = IF kind = "postgres" THEN StreamItems(result, failAt) ELSE <<>>
    /\ finished = FALSE
    /\ nextReturns = <<>>

RowsIdle == RowsOpen("sqlite", <<>>, 0)

RowsInit ==
    \E kind \in {"sqlite", "postgres"} :
        \E result \in QueryResults(kind) :
            \E failAt \in 0..Len(result) :
                /\ kind = "sqlite" => failAt = 0
                /\ RowsOpen(kind, result, failAt)

\* SQLiteRows::next
SQLiteRowsNext ==
    /\ rowsKind = "sqlite"
    /\ Len(nextReturns) < MaxNexts
    /\ IF current_index >= Len(rowsVec)
       THEN /\ nextReturns' = Append(nextReturns, [res |-> "EndOfRows", row |-> <<>>])
            /\ UNCHANGED current_index
       ELSE /\ nextReturns' = Append(nextReturns,
                                     [res |-> "Ok", row |-> rowsVec[current_index + 1]])
            /\ current_index' = current_index + 1
    /\ UNCHANGED <<rowsKind, rowsResult, rowsFailAt, rowsVec, rowStream, finished>>

\* PostgresRows::next
PostgresRowsNext ==
    /\ rowsKind = "postgres"
    /\ Len(nextReturns) < MaxNexts
    /\ IF finished
       THEN /\ nextReturns' = Append(nextReturns, [res |-> "EndOfRows", row |-> <<>>])
            /\ UNCHANGED <<rowStream, finished>>
       ELSE IF rowStream = <<>>
       THEN /\ nextReturns' = Append(nextReturns, [res |-> "EndOfRows", row |-> <<>>])
            /\ finished' = TRUE
            /\ UNCHANGED rowStream
       ELSE IF Head(rowStream).ok
       THEN /\ nextReturns' = Append(nextReturns,
                                     [res |-> "Ok",
                                      row |-> row_to_dbvalue_row(Head(rowStream).row)])
            /\ rowStream' = Tail(rowStream)
            /\ UNCHANGED finished
       ELSE /\ nextReturns' = Append(nextReturns, [res |-> "QueryFailed", row |-> <<>>])
            /\ rowStream' = Tail(rowStream)
            /\ finished' = TRUE
    /\ UNCHANGED <<rowsKind, rowsResult, rowsFailAt, rowsVec, current_index>>

\* SQLiteRows::close: logs and returns Ok; the call is noted in the history
SQLiteRowsClose ==
    /\ rowsKind = "sqlite"
    /\ Len(nextReturns) < MaxNexts
    /\ nextReturns' = Append(nextReturns, [res |-> "Closed", row |-> <<>>])
    /\ UNCHANGED <<rowsKind, rowsResult, rowsFailAt, rowsVec, current_index, rowStream,
                   finished>>

\* PostgresRows::close: sets finished; the call is noted in the history
PostgresRowsClose ==
    /\ rowsKind = "postgres"
    /\ Len(nextReturns) < MaxNexts
    /\ finished' = TRUE
    /\ nextReturns' = Append(nextReturns, [res |-> "Closed", row |-> <<>>])
    /\ UNCHANGED <<rowsKind, rowsResult, rowsFailAt, rowsVec, current_index, rowStream>>

\* ------------------------------------------------------------------------
\* Part 20: the model cache of the llama backend
\* (crates/hayride-llama/src/lib.rs): LlamaCppBackend.models maps a name to
\* the native model, load returns a Graph over it, a Graph makes execution
\* contexts over the same model, and only the backend's drop frees models
\* ------------------------------------------------------------------------
MaxHandles == 4
MaxFailedLoads == 2

CacheNames == {"a.gguf", "b.gguf"}

VARIABLES
    cacheAlive,     \* the LlamaCppBackend has not been dropped
    modelMap,       \* LlamaCppBackend.models: name -> native model, 0 if absent
    nextModel,      \* the next pointer llama_load_model_from_file hands out
    fileLoads,      \* name -> native loads of that name that returned a model
    failedLoads,    \* native loads that returned null
    handles,        \* the Graphs and execution contexts made, in order
    frees           \* the models passed to llama_free_model, in order

cacheVars == <<cacheAlive, modelMap, nextModel, fileLoads, failedLoads, handles, frees>>

\* LlamaCppBackend::new
CacheInit ==
    /\ cacheAlive = TRUE
    /\ modelMap = [n \in CacheNames |-> 0]
    /\ nextModel = 1
    /\ fileLoads = [n \in CacheNames |-> 0]
    /\ failedLoads = 0
    /\ handles = <<>>
    /\ frees = <<>>

\* a drop that frees the model the Graph or context refers to
drop_handle_frees(model) == <<model>>

\* Drop for LlamaCppGraph and for LlamaCppExecutionContext: a log line only
drop_handle(model) == <<>>

\* HashMap::drain in Drop for LlamaCppBackend: every model kept, once
drain(map) ==
    LET RECURSIVE walk(_)
        walk(names) ==
            IF names = {} THEN <<>>
            ELSE LET n == CHOOSE x \in names : TRUE
                 IN  (IF map[n] = 0 THEN <<>> ELSE <<map[n]>>) \o walk(names \ {n})
    IN  walk(DOMAIN map)

\* BackendInner::load: a name already in models gives a new Graph over the
\* kept model; otherwise the file is loaded, null is an error, and a model
\* is kept under the name
CacheLoad(name, null) ==
    /\ cacheAlive
    /\ Len(handles) < MaxHandles
    /\ IF modelMap[name] # 0
       THEN /\ handles' = Append(handles, [kind |-> "graph", name |-> name,
                                           model |-> modelMap[name], live |-> TRUE])
            /\ UNCHANGED <<modelMap, nextModel, fileLoads, failedLoads>>
       ELSE IF null
       THEN /\ failedLoads < MaxFailedLoads
            /\ failedLoads' = failedLoads + 1
            /\ UNCHANGED <<modelMap, nextModel, fileLoads, handles>>
       ELSE /\ modelMap' = [modelMap EXCEPT ![name] = nextModel]
            /\ nextModel' = nextModel + 1
            /\ fileLoads' = [fileLoads EXCEPT ![name] = @ + 1]
            /\ handles' = Append(handles, [kind |-> "graph", name |-> name,
                                           model |-> nextModel, live |-> TRUE])
            /\ UNCHANGED failedLoads
    /\ UNCHANGED <<cacheAlive, frees>>

\* BackendGraph::init_execution_context: a context over the Graph's model
InitExecutionContext(g) ==
    /\ Len(handles) < MaxHandles
    /\ handles[g].live
    /\ handles[g].kind = "graph"
    /\ handles' = Append(handles, [kind |-> "context", name |-> handles[g].name,
                                   model |-> handles[g].model, live |-> TRUE])
    /\ UNCHANGED <<cacheAlive, modelMap, nextModel, fileLoads, failedLoads, frees>>

\* a Graph or an execution context is dropped
DropHandle(g) ==
    /\ handles[g].live
    /\ handles' = [handles EXCEPT ![g].live = FALSE]
    /\ frees' = frees \o drop_handle(handles[g].model)
    /\ UNCHANGED <<cacheAlive, modelMap, nextModel, fileLoads, failedLoads>>

\* Drop for LlamaCppBackend: llama_free_model on every drained model
CacheBackendDrop ==
    /\ cacheAlive
    /\ cacheAlive' = FALSE
    /\ frees' = frees \o drain(modelMap)
    /\ modelMap' = [n \in CacheNames |-> 0]
    /\ UNCHANGED <<nextModel, fileLoads, failedLoads, handles>>

\* ------------------------------------------------------------------------
\* Part 21: the version cache of hayride:core
\* (hayride-runtime/src/core/core_impl.rs, version::Host::latest): the
\* cache holds the time of the last successful check and the value it gave;
\* an optional value is the empty sequence or a sequence of one element
\* ------------------------------------------------------------------------
RefreshSeconds == 3600
MaxClock == 9005
MaxLatest == 4

\* the steps the wall clock takes between calls: two of the shorter one make
\* exactly RefreshSeconds, any other pair makes more
Ticks == {1800, 1801}

VersionStrings == {"0.1.0", "0.2.0"}

VARIABLES
    clock,          \* SystemTime::now() in seconds since the epoch
    version_cache,  \* [last_check, last_version], both optional
    latestCalls,    \* calls of latest() so far
    lastLatest      \* the last call: its time, the cache it saw, whether the
                    \* backend was called, what the backend and latest returned

coreVars == <<clock, version_cache, latestCalls, lastLatest>>

EmptyCache == [last_check |-> <<>>, last_version |-> <<>>]

CoreInit ==
    /\ clock = 0
    /\ version_cache = EmptyCache
    /\ latestCalls = 0
    /\ lastLatest = [now |-> 0, before |-> EmptyCache, called |-> FALSE,
                     backend |-> <<>>, result |-> <<>>]

\* the check is due from the hour on
should_check_from_the_hour(cache, now) ==
    IF cache.last_check = <<>> THEN TRUE ELSE now >= cache.last_check[1] + RefreshSeconds

\* match cache.last_check { Some(last) => now > last + 3600, None => true }
should_check(cache, now) ==
    IF cache.last_check = <<>> THEN TRUE ELSE now > cache.last_check[1] + RefreshSeconds

\* the cache as the CoreView hands it out
get_version_cache(cache) == cache

\* set_version_cache(last_check, last_version): both fields are replaced
set_version_cache(last_check, last_version) ==
    [last_check |-> last_check, last_version |-> last_version]

\* a failed check that forgets what was cached
forget_on_error(cache) == EmptyCache

\* the Err arm of latest: the cache is not written
keep_on_error(cache) == cache

\* time passes between calls
Tick(d) ==
    /\ clock + d <= MaxClock
    /\ clock' = clock + d
    /\ UNCHANGED <<version_cache, latestCalls, lastLatest>>

\* version::Host::latest; backend is what version_backend.latest() would
\* return if called: <<"Ok", v>> or <<"Err">>
Latest(backend) ==
    LET cache == get_version_cache(version_cache)
        now   == clock
        cached == ~should_check(cache, now) /\ cache.last_version # <<>>
    IN  /\ latestCalls < MaxLatest
        /\ latestCalls' = latestCalls + 1
        /\ IF cached
           THEN /\ lastLatest' = [now |-> now, before |-> cache, called |-> FALSE,
                                  backend |-> <<>>,
                                  result |-> <<"Ok", cache.last_version[1]>>]
                /\ UNCHANGED version_cache
           ELSE IF backend[1] = "Ok"
           THEN /\ version_cache' = set_version_cache(<<now>>, <<backend[2]>>)
                /\ lastLatest' = [now |-> now, before |-> cache, called |-> TRUE,
                                  backend |-> backend, result |-> backend]
           ELSE /\ version_cache' = keep_on_error(version_cache)
                /\ lastLatest' = [now |-> now, before |-> cache, called |-> TRUE,
                                  backend |-> backend, result |-> <<"Err">>]
        /\ UNCHANGED clock

BackendResults == {<<"Ok", v>> : v \in VersionStrings} \cup {<<"Err">>}

\* ------------------------------------------------------------------------
\* Part 22: the WebSocket input stream (hayride-runtime/src/websocket.rs):
\* WebSocketReader turns the socket's messages into bytes, the task spawned
\* by WebsocketInputPipe::new reads them into a channel, and the guest's
\* read and ready take them from the channel
\* ------------------------------------------------------------------------
MaxMessages == 2
MaxReads == 5
ReadBufCap == 2         \* BytesMut::with_capacity(4096), scaled
ReceiverCap == 2        \* mpsc::channel(2048), scaled

Payloads == {<<>>, <<1>>, <<2, 3, 4>>}

Messages ==
    [kind : {"Text", "Binary"}, payload : Payloads]
        \cup [kind : {"Ping", "Pong", "Frame", "Close"}, payload : {<<>>}]

MessageSeqs == UNION {[1..n -> Messages] : n \in 0..MaxMessages}

VARIABLES
    wsMessages,     \* the messages the peer sends, in order
    socket,         \* those the socket has not yet yielded
    socketOpen,     \* the socket has not ended
    streamEnded,    \* the socket has yielded Close or None
    readerBuffer,   \* WebSocketReader.buffer
    readerPc,       \* the spawned task: "read" or "send"
    readerItem,     \* what the task is about to send
    receiver,       \* the channel between the task and the pipe
    inBuffer,       \* WebsocketInputPipe.buffer, optional
    inClosed,       \* WebsocketInputPipe.closed
    readReturns     \* what read has returned, in order

inputVars == <<wsMessages, socket, socketOpen, streamEnded, readerBuffer, readerPc,
               readerItem, receiver, inBuffer, inClosed, readReturns>>

InputIdle ==
    /\ wsMessages = <<>>
    /\ socket = <<>>
    /\ socketOpen = TRUE
    /\ streamEnded = FALSE
    /\ readerBuffer = <<>>
    /\ readerPc = "read"
    /\ readerItem = <<>>
    /\ receiver = <<>>
    /\ inBuffer = <<>>
    /\ inClosed = FALSE
    /\ readReturns = <<>>

\* WebsocketInputPipe::new over a socket that will carry some messages
InputInit ==
    /\ wsMessages \in MessageSeqs
    /\ socket = wsMessages
    /\ socketOpen = TRUE
    /\ streamEnded = FALSE
    /\ readerBuffer = <<>>
    /\ readerPc = "read"
    /\ readerItem = <<>>
    /\ receiver = <<>>
    /\ inBuffer = <<>>
    /\ inClosed = FALSE
    /\ readReturns = <<>>

\* Bytes::split_to / split_off at n: the first n bytes and the rest
first_bytes(bytes, n) == SubSeq(bytes, 1, n)
rest_bytes(bytes, n) == SubSeq(bytes, n + 1, Len(bytes))

\* Message::Close ends the stream; Ping, Pong and Frame are skipped
is_end(m) == m.kind = "Close"

\* AsyncRead::poll_read of WebSocketReader with room for cap bytes: leftover
\* bytes first; otherwise the next message, whose payload becomes the buffer;
\* the result says whether the poll is Pending, and if not which bytes were
\* put, what is left of the buffer and of the socket, and whether it ended
RECURSIVE poll_read(_, _, _, _, _)
poll_read(left, msgs, ended, open, cap) ==
    IF left # <<>>
    THEN [pending |-> FALSE, bytes |-> first_bytes(left, Min(Len(left), cap)),
          buffer |-> rest_bytes(left, Min(Len(left), cap)),
          stream |-> msgs, ended |-> ended]
    ELSE IF ended \/ (msgs = <<>> /\ ~open)
    THEN [pending |-> FALSE, bytes |-> <<>>, buffer |-> <<>>, stream |-> msgs,
          ended |-> TRUE]
    ELSE IF msgs = <<>>
    THEN [pending |-> TRUE, bytes |-> <<>>, buffer |-> <<>>, stream |-> msgs,
          ended |-> ended]
    ELSE IF is_end(Head(msgs))
    THEN [pending |-> FALSE, bytes |-> <<>>, buffer |-> <<>>, stream |-> Tail(msgs),
          ended |-> TRUE]
    ELSE IF Head(msgs).kind \in {"Text", "Binary"}
    THEN poll_read(Head(msgs).payload, Tail(msgs), ended, open, cap)
    ELSE poll_read(<<>>, Tail(msgs), ended, open, cap)

\* the peer's side of the socket ends
SocketEnds ==
    /\ socketOpen
    /\ socketOpen' = FALSE
    /\ UNCHANGED <<wsMessages, socket, streamEnded, readerBuffer, readerPc, readerItem,
                   receiver, inBuffer, inClosed, readReturns>>

\* the spawned task: reader.read_buf(&mut buf).await, zero bytes read is
\* Err(StreamError::Closed), otherwise the bytes
TaskReadBuf ==
    LET r == poll_read(readerBuffer, socket, streamEnded, socketOpen, ReadBufCap)
    IN  /\ readerPc = "read"
        /\ ~r.pending
        /\ readerBuffer' = r.buffer
        /\ socket' = r.stream
        /\ streamEnded' = r.ended
        /\ readerItem' = IF r.bytes = <<>> THEN <<"Closed">> ELSE <<"Ok", r.bytes>>
        /\ readerPc' = "send"
        /\ UNCHANGED <<wsMessages, socketOpen, receiver, inBuffer, inClosed, readReturns>>

\* the spawned task: sender.send(item).await, which waits for room, and
\* then the loop goes round
TaskSend ==
    /\ readerPc = "send"
    /\ Len(receiver) < ReceiverCap
    /\ receiver' = Append(receiver, readerItem)
    /\ readerItem' = <<>>
    /\ readerPc' = "read"
    /\ UNCHANGED <<wsMessages, socket, socketOpen, streamEnded, readerBuffer, inBuffer,
                   inClosed, readReturns>>

\* what read makes of an item: bytes are cut at size and the rest is kept,
\* an error closes the pipe
take_item(item, size) ==
    IF item[1] = "Ok"
    THEN [ret |-> <<"Ok", first_bytes(item[2], Min(Len(item[2]), size))>>,
          buffer |-> IF rest_bytes(item[2], Min(Len(item[2]), size)) = <<>>
                     THEN <<>>
                     ELSE << <<"Ok", rest_bytes(item[2], Min(Len(item[2]), size))>> >>,
          closed |-> inClosed]
    ELSE [ret |-> item, buffer |-> <<>>, closed |-> TRUE]

\* InputStream::read(size): the buffered item if there is one, else
\* try_recv, and zero bytes when the channel is empty
InputRead(size) ==
    LET r == IF inBuffer # <<>> THEN take_item(inBuffer[1], size)
             ELSE IF receiver # <<>> THEN take_item(Head(receiver), size)
             ELSE [ret |-> <<"Ok", <<>>>>, buffer |-> <<>>, closed |-> inClosed]
    IN  /\ Len(readReturns) < MaxReads
        /\ readReturns' = Append(readReturns, r.ret)
        /\ inBuffer' = r.buffer
        /\ inClosed' = r.closed
        /\ receiver' = IF inBuffer = <<>> /\ receiver # <<>> THEN Tail(receiver)
                       ELSE receiver
        /\ UNCHANGED <<wsMessages, socket, socketOpen, streamEnded, readerBuffer,
                       readerPc, readerItem>>

\* Pollable::ready: returns at once with a buffered item or a closed pipe,
\* otherwise waits for the next item and buffers it
InputReady ==
    /\ inBuffer = <<>>
    /\ ~inClosed
    /\ receiver # <<>>
    /\ inBuffer' = <<Head(receiver)>>
    /\ receiver' = Tail(receiver)
    /\ UNCHANGED <<wsMessages, socket, socketOpen, streamEnded, readerBuffer, readerPc,
                   readerItem, inClosed, readReturns>>

\* ------------------------------------------------------------------------
\* Part 23: the file-backed stdin stream (hayride-runtime/src/lib.rs,
\* FileHostInputStream): the `in` file only grows, the stream keeps a read
\* position, read reopens the file and reads from the position, ready
\* polls the file's length
\* ------------------------------------------------------------------------
MaxFile == 2
MaxFileReads == 3

FileBytes == {7, 8}

VARIABLES
    inFile,         \* the bytes of the `in` file
    filePosition,   \* FileHostInputStream.position
    readyPc,        \* ready(): "idle", "polling" or "returned"
    readyAt,        \* position and file length when ready() last returned
    readLog         \* the reads: position and length before, size, result

fileVars == <<inFile, filePosition, readyPc, readyAt, readLog>>

\* FileStdin::stream over the file just created
FileInit ==
    /\ inFile = <<>>
    /\ filePosition = 0
    /\ readyPc = "idle"
    /\ readyAt = <<>>
    /\ readLog = <<>>

\* a position that moves by what was asked for
advance_by_size(pos, n, size) == pos + size

\* *position += n as u64
advance(pos, n, size) == pos + n

\* another process appends a byte to the file
AppendByte(b) ==
    /\ Len(inFile) < MaxFile
    /\ inFile' = Append(inFile, b)
    /\ UNCHANGED <<filePosition, readyPc, readyAt, readLog>>

\* HostInputStream::read(size): empty at or past the end of the file;
\* otherwise seek to the position and read up to min(size, what is there);
\* File::read may return n bytes short of that
FileRead(size, n) ==
    LET file_size == Len(inFile)
        to_read == Min(size, file_size - filePosition)
    IN  /\ readyPc # "polling"
        /\ Len(readLog) < MaxFileReads
        /\ IF filePosition >= file_size
           THEN /\ readLog' = Append(readLog, [at |-> filePosition, len |-> file_size,
                                               size |-> size, ret |-> <<"Ok", <<>>>>])
                /\ UNCHANGED filePosition
           ELSE /\ n \in 1..to_read
                /\ filePosition' = advance(filePosition, n, size)
                /\ readLog' = Append(readLog,
                       [at |-> filePosition, len |-> file_size, size |-> size,
                        ret |-> <<"Ok", SubSeq(inFile, filePosition + 1,
                                               filePosition + n)>>])
        /\ readyPc' = "idle"
        /\ UNCHANGED <<inFile, readyAt>>

\* Subscribe::ready is called
ReadyBegin ==
    /\ readyPc # "polling"
    /\ readyPc' = "polling"
    /\ UNCHANGED <<inFile, filePosition, readyAt, readLog>>

\* one round of ready's loop that finds *position < file_size and returns;
\* any other round sleeps and changes nothing
ReadyReturns ==
    /\ readyPc = "polling"
    /\ filePosition < Len(inFile)
    /\ readyPc' = "returned"
    /\ readyAt' = <<filePosition, Len(inFile)>>
    /\ UNCHANGED <<inFile, filePosition, readLog>>

\* ------------------------------------------------------------------------
\* Part 24: Reactor execution (hayride-runtime/src/engine.rs, the
\* ComponentType::Reactor arm of run): the arguments after the function's
\* name are converted to the exported function's parameters, and the
\* function is called
\* ------------------------------------------------------------------------
MaxParams == 2

\* component model types: the six run converts, and two it does not
ValTypes == {"string", "s32", "s64", "u32", "u64", "bool", "list", "float32"}

ResultTypes == {"string", "bool", "list"}

\* argument texts: a number, a negative number, a boolean, a word
ArgTexts == {"7", "-1", "true", "x"}

TypeSeqs(S, n) == UNION {[1..k -> S] : k \in 0..n}

VARIABLES
    runParams,      \* f.params: the parameter types of the exported function
    runResultTypes, \* f.results
    runArgs,        \* args: the function's name, then the argument texts
    runPc,          \* "ready" or "returned"
    runInvoked,     \* call_async was reached
    runReturn       \* what run returned: "Ok" or the error

reactorVars == <<runParams, runResultTypes, runArgs, runPc, runInvoked, runReturn>>

ReactorIdle ==
    /\ runParams = <<>>
    /\ runResultTypes = <<>>
    /\ runArgs = <<"f">>
    /\ runPc = "ready"
    /\ runInvoked = FALSE
    /\ runReturn = "none"

\* a Reactor component with an exported function f, and an argument list
ReactorInit ==
    /\ runParams \in TypeSeqs(ValTypes, MaxParams)
    /\ runResultTypes \in TypeSeqs(ResultTypes, 1)
    /\ runArgs \in {<<"f">> \o a : a \in TypeSeqs(ArgTexts, MaxParams + 1)}
    /\ runPc = "ready"
    /\ runInvoked = FALSE
    /\ runReturn = "none"

\* the match on the parameter's type has an arm for it
supported(type) == type \in {"string", "s32", "s64", "u32", "u64", "bool"}

\* str::parse::<i32|i64|u32|u64|bool> of the argument texts; a string
\* parameter takes the text as it is
parses(type, text) ==
    CASE type = "string" -> TRUE
      [] type \in {"s32", "s64"} -> text \in {"7", "-1"}
      [] type \in {"u32", "u64"} -> text = "7"
      [] type = "bool" -> text = "true"
      [] OTHER -> FALSE

\* a count check that lets spare arguments through
arity_at_least(params, args) == Len(params) <= Len(args) - 1

\* f.params(&mut store).len() != args.len() - 1 is the error
arity_matches(params, args) == Len(params) = Len(args) - 1

\* the loop over f.params: the first parameter that stops it, and how
RECURSIVE build_params(_, _, _)
build_params(params, args, index) ==
    IF index > Len(params) THEN "Ok"
    ELSE IF ~supported(params[index]) THEN "Unknown Param Type"
    ELSE IF ~parses(params[index], args[index + 1]) THEN "ParseError"
    ELSE build_params(params, args, index + 1)

\* the loop over f.results
build_results(results) ==
    IF \E i \in 1..Len(results) : results[i] \notin {"string", "s32", "s64", "u32", "u64", "bool"}
    THEN "Unknown Result Type"
    ELSE "Ok"

\* run, from instance.get_func on; callOk says whether call_async returns Ok
RunReactor(callOk) ==
    /\ runPc = "ready"
    /\ runPc' = "returned"
    /\ IF ~arity_matches(runParams, runArgs)
       THEN /\ runReturn' = "Incorrect number of arguments"
            /\ runInvoked' = FALSE
       ELSE IF build_params(runParams, runArgs, 1) # "Ok"
       THEN /\ runReturn' = build_params(runParams, runArgs, 1)
            /\ runInvoked' = FALSE
       ELSE IF build_results(runResultTypes) # "Ok"
       THEN /\ runReturn' = build_results(runResultTypes)
            /\ runInvoked' = FALSE
       ELSE /\ runInvoked' = TRUE
            /\ runReturn' = IF callOk THEN "Ok" ELSE "CallFailed"
    /\ UNCHANGED <<runParams, runResultTypes, runArgs>>

\* ------------------------------------------------------------------------
\* Part 25: the sampler chain of process_compute
\* (crates/hayride-llama/src/lib.rs): two computations over the same model
\* and prompt, each with its own options; a sampler is [s, arg], the model
\* ranks the candidate tokens for the next position from the tokens so far
\* ------------------------------------------------------------------------
MaxPieces == 3

Runs == {"A", "B"}

\* what the options tensor carries for the sampler; top_p in hundredths
SamplerOptions == [temperature : {0, 50}, top_k : {0, 1, 2}, top_p : {50, 90}, seed : {0, 7, 8}]

VARIABLES
    samplerOptions, \* run -> the options given
    samplerChain,   \* run -> the samplers added to the chain, <<>> before that
    decodedPieces   \* run -> the tokens sampled so far

samplerVars == <<samplerOptions, samplerChain, decodedPieces>>

SamplerIdle ==
    /\ samplerOptions = [r \in Runs |-> [temperature |-> 0, top_k |-> 0, top_p |-> 50, seed |-> 0]]
    /\ samplerChain = [r \in Runs |-> <<>>]
    /\ decodedPieces = [r \in Runs |-> <<>>]

\* two computations with the same temperature
SamplerInit ==
    /\ samplerOptions \in [Runs -> SamplerOptions]
    /\ samplerOptions["A"].temperature = samplerOptions["B"].temperature
    /\ samplerChain = [r \in Runs |-> <<>>]
    /\ decodedPieces = [r \in Runs |-> <<>>]

\* a chain that ends in the seeded sampler whatever the temperature
sampler_chain_seeded(temperature, top_k, top_p, seed) ==
    <<[s |-> "top_k", arg |-> top_k], [s |-> "top_p", arg |-> top_p],
      [s |-> "temp", arg |-> temperature], [s |-> "dist", arg |-> seed]>>

\* if temperature > 0.0 { top_k, top_p, temp, dist(seed) } else { greedy };
\* llama_sampler_init_penalties is called and its result is not added
sampler_chain(temperature, top_k, top_p, seed) ==
    IF temperature > 0
    THEN <<[s |-> "top_k", arg |-> top_k], [s |-> "top_p", arg |-> top_p],
           [s |-> "temp", arg |-> temperature], [s |-> "dist", arg |-> seed]>>
    ELSE <<[s |-> "greedy", arg |-> 0]>>

\* the model's candidates for the next token, most probable first, as a
\* function of the tokens so far; their probabilities are 60, 30, 10
candidates(sofar) ==
    LET shift == IF sofar = <<>> THEN 0 ELSE (sofar[Len(sofar)] + Len(sofar)) % 3
    IN  [i \in 1..3 |-> ((i - 1 + shift) % 3) + 1]

Mass == <<60, 90, 100>>

\* one sampler applied to the candidates
apply_sampler(sampler, cands, step) ==
    CASE sampler.s = "top_k" -> SubSeq(cands, 1, Min(sampler.arg, Len(cands)))
      [] sampler.s = "top_p" ->
             SubSeq(cands, 1, CHOOSE n \in 1..Len(cands) :
                                  /\ Mass[n] >= sampler.arg \/ n = Len(cands)
                                  /\ \A k \in 1..(n - 1) : Mass[k] < sampler.arg)
      [] sampler.s = "temp" -> cands
      [] sampler.s = "dist" -> <<cands[((sampler.arg + step) % Len(cands)) + 1]>>
      [] sampler.s = "greedy" -> <<cands[1]>>

\* llama_sampler_sample: the chain's samplers in order, and the token left
RECURSIVE apply_chain(_, _, _)
apply_chain(chain, cands, step) ==
    IF chain = <<>> THEN cands
    ELSE apply_chain(Tail(chain), apply_sampler(Head(chain), cands, step), step)

\* process_compute builds the chain from the resolved options
BuildSamplerChain(r, random) ==
    /\ samplerChain[r] = <<>>
    /\ samplerChain' = [samplerChain EXCEPT ![r] =
           sampler_chain(samplerOptions[r].temperature,
                         top_k_option(samplerOptions[r].top_k),
                         samplerOptions[r].top_p,
                         seed_option(samplerOptions[r].seed, random))]
    /\ UNCHANGED <<samplerOptions, decodedPieces>>

\* one round of the decode loop: the next token is sampled
SampleWithChain(r) ==
    /\ samplerChain[r] # <<>>
    /\ Len(decodedPieces[r]) < MaxPieces
    /\ decodedPieces' = [decodedPieces EXCEPT ![r] =
           Append(@, apply_chain(samplerChain[r], candidates(decodedPieces[r]),
                                 Len(decodedPieces[r]))[1])]
    /\ UNCHANGED <<samplerOptions, samplerChain>>

\* ------------------------------------------------------------------------
\* Part 26: the response of the HTTP request adapter
\* (hayride-runtime/src/server.rs, handle_request): what the component set
\* through the outparam, and what the adapter returns for it; a header map
\* is a set of <<name, value>> pairs, names in lower case
\* ------------------------------------------------------------------------
StatusCodes == {200, 404}

ErrorCodes == {"internal-error", "HTTP-request-denied"}

\* the headers a component may have set
ContentTypes == {{}, {<<"content-type", "text/plain">>}, {<<"content-type", "application/json">>}}
AllowOrigins == {{}, {<<"access-control-allow-origin", "https://a.example">>},
                 {<<"access-control-allow-origin", "*">>}}
RequestIds == {{}, {<<"x-request-id", "1">>}}

HeaderMaps == {c \cup a \cup r : c \in ContentTypes, a \in AllowOrigins, r \in RequestIds}

Responses == [status : StatusCodes, headers : HeaderMaps]

OutparamValues ==
    {<<"response", resp>> : resp \in Responses} \cup {<<"error", e>> : e \in ErrorCodes}

VARIABLES
    corsPc,         \* handle_request: "idle", "awaiting" or "returned"
    corsTask,       \* the spawned task: "none", "running", "Ok", "Err", "JoinError"
    corsOutparam,   \* what the component set, <<>> while unset
    corsResult      \* what handle_request returned, <<>> before that

corsVars == <<corsPc, corsTask, corsOutparam, corsResult>>

CorsInit ==
    /\ corsPc = "idle"
    /\ corsTask = "none"
    /\ corsOutparam = <<>>
    /\ corsResult = <<>>

\* HeaderName from a str: ASCII letters are lowered
header_name(name) ==
    CASE name = "Access-Control-Allow-Origin" -> "access-control-allow-origin"
      [] name = "Access-Control-Allow-Methods" -> "access-control-allow-methods"
      [] name = "Access-Control-Allow-Headers" -> "access-control-allow-headers"
      [] OTHER -> name

\* a header added next to the values the name already has
append_header(headers, name, value) ==
    headers \cup {<<header_name(name), value>>}

\* HeaderMap::insert: the name's earlier values are replaced
insert(headers, name, value) ==
    {h \in headers : h[1] # header_name(name)} \cup {<<header_name(name), value>>}

\* the Ok(Ok(resp)) arm: the three CORS headers are inserted
add_cors_headers(resp) ==
    [resp EXCEPT !.headers =
        insert(insert(insert(@, "Access-Control-Allow-Origin", "*"),
                      "Access-Control-Allow-Methods", "GET, POST, OPTIONS"),
               "Access-Control-Allow-Headers", "*")]

\* the Store is built, the component instantiated and the task spawned
CorsHandleRequest ==
    /\ corsPc = "idle"
    /\ corsPc' = "awaiting"
    /\ corsTask' = "running"
    /\ UNCHANGED <<corsOutparam, corsResult>>

\* the component calls response-outparam::set
CorsGuestSets(value) ==
    /\ corsTask = "running"
    /\ corsOutparam = <<>>
    /\ corsOutparam' = value
    /\ UNCHANGED <<corsPc, corsTask, corsResult>>

\* call_handle returns, or the task panics
CorsGuestTaskEnds(result) ==
    /\ corsTask = "running"
    /\ corsTask' = result
    /\ UNCHANGED <<corsPc, corsOutparam, corsResult>>

\* match receiver.await: Ok(Ok(resp)) gets the headers, Ok(Err(e)) is Err(e)
CorsHandleReceives ==
    /\ corsPc = "awaiting"
    /\ corsOutparam # <<>>
    /\ corsPc' = "returned"
    /\ corsResult' = IF corsOutparam[1] = "response"
                     THEN <<"Ok", add_cors_headers(corsOutparam[2])>>
                     ELSE <<"Err", corsOutparam[2]>>
    /\ UNCHANGED <<corsTask, corsOutparam>>

\* the Err(_) arm: the sender was dropped unused, task.await follows
CorsHandleDisconnected ==
    /\ corsPc = "awaiting"
    /\ corsOutparam = <<>>
    /\ corsTask \in {"Ok", "Err", "JoinError"}
    /\ corsPc' = "returned"
    /\ corsResult' = <<disconnected_result(corsTask)>>
    /\ UNCHANGED <<corsTask, corsOutparam>>

\* ------------------------------------------------------------------------
\* Specifications: each part runs while the other parts stay as constructed
\* ------------------------------------------------------------------------
vars == <<siloVars, linkVars, shapeVars, streamVars, decodeVars, optionVars, outputVars,
         httpVars, dbVars, morphVars, storeVars, llamaVars,
      tableVars,
      dsnVars,
      registryVars,
      computeVars,
      producerVars,
      postgresVars,
      rowsVars,
      cacheVars,
      coreVars,
      inputVars,
      fileVars,
      reactorVars,
      samplerVars,
      corsVars>>

SiloOnly == UNCHANGED <<linkVars, shapeVars, streamVars, decodeVars, optionVars, outputVars,
      httpVars, dbVars, morphVars, storeVars, llamaVars,
      tableVars,
      dsnVars,
      registryVars,
      computeVars,
      producerVars,
      postgresVars,
      rowsVars,
      cacheVars,
      coreVars,
      inputVars,
      fileVars,
      reactorVars,
      samplerVars,
      corsVars>>

LinkOnly == UNCHANGED <<siloVars, shapeVars, streamVars, decodeVars, optionVars, outputVars,
      httpVars, dbVars, morphVars, storeVars, llamaVars,
      tableVars,
      dsnVars,
      registryVars,
      computeVars,
      producerVars,
      postgresVars,
      rowsVars,
      cacheVars,
      coreVars,
      inputVars,
      fileVars,
      reactorVars,
      samplerVars,
      corsVars>>

ShapeOnly == UNCHANGED <<siloVars, linkVars, streamVars, decodeVars, optionVars, outputVars,
      httpVars, dbVars, morphVars, storeVars, llamaVars,
      tableVars,
      dsnVars,
      registryVars,
      computeVars,
      producerVars,
      postgresVars,
      rowsVars,
      cacheVars,
      coreVars,
      inputVars,
      fileVars,
      reactorVars,
      samplerVars,
      corsVars>>

StreamOnly == UNCHANGED <<siloVars, linkVars, shapeVars, decodeVars, optionVars, outputVars,
      httpVars, dbVars, morphVars, storeVars, llamaVars,
      tableVars,
      dsnVars,
      registryVars,
      computeVars,
      producerVars,
      postgresVars,
      rowsVars,
      cacheVars,
      coreVars,
      inputVars,
      fileVars,
      reactorVars,
      samplerVars,
      corsVars>>

DecodeOnly == UNCHANGED <<siloVars, linkVars, shapeVars, streamVars, optionVars, outputVars,
      httpVars, dbVars, morphVars, storeVars, llamaVars,
      tableVars,
      dsnVars,
      registryVars,
      computeVars,
      producerVars,
      postgresVars,
      rowsVars,
      cacheVars,
      coreVars,
      inputVars,
      fileVars,
      reactorVars,
      samplerVars,
      corsVars>>

OptionsOnly == UNCHANGED <<siloVars, linkVars, shapeVars, streamVars, decodeVars, outputVars,
      httpVars, dbVars, morphVars, storeVars, llamaVars,
      tableVars,
      dsnVars,
      registryVars,
      computeVars,
      producerVars,
      postgresVars,
      rowsVars,
      cacheVars,
      coreVars,
      inputVars,
      fileVars,
      reactorVars,
      samplerVars,
      corsVars>>

SiloNext ==
    \/ \E t \in ThreadIds : SpawnTask(t) /\ SiloOnly
    \/ \E t \in ThreadIds : SpawnInsert(t) /\ SiloOnly
    \/ \E t \in ThreadIds : ChildRunReturns(t) /\ SiloOnly
    \/ \E t \in ThreadIds : ChildUpdateStatus(t) /\ SiloOnly
    \/ \E t \in ThreadIds : ChildAborted(t) /\ SiloOnly
    \/ \E t \in ThreadIds : Kill(t) /\ SiloOnly
    \/ \E t \in ThreadIds : WaitBegin(t) /\ SiloOnly
    \/ \E t \in ThreadIds : WaitEnd(t) /\ SiloOnly
    \/ \E t \in ThreadIds : Status(t) /\ SiloOnly
    \/ Group /\ SiloOnly
    \/ \E t \in ThreadIds : DropThread(t) /\ SiloOnly

\* the registry when no caller ever issues kill
SiloNoKillNext ==
    \/ \E t \in ThreadIds : SpawnTask(t) /\ SiloOnly
    \/ \E t \in ThreadIds : SpawnInsert(t) /\ SiloOnly
    \/ \E t \in ThreadIds : ChildRunReturns(t) /\ SiloOnly
    \/ \E t \in ThreadIds : ChildUpdateStatus(t) /\ SiloOnly
    \/ \E t \in ThreadIds : WaitBegin(t) /\ SiloOnly
    \/ \E t \in ThreadIds : WaitEnd(t) /\ SiloOnly
    \/ \E t \in ThreadIds : Status(t) /\ SiloOnly
    \/ Group /\ SiloOnly
    \/ \E t \in ThreadIds : DropThread(t) /\ SiloOnly

LinkNext == LinkImports /\ LinkOnly

ShapeNext == SelectComponentType /\ ShapeOnly

StreamNext ==
    \/ ProducerReadData /\ StreamOnly
    \/ ProducerReadEof /\ StreamOnly
    \/ ProducerReadErr /\ StreamOnly
    \/ ProducerSend /\ StreamOnly
    \/ \E size \in 0..MaxSize : Read(size) /\ StreamOnly
    \/ Ready /\ StreamOnly

DecodeNext ==
    \/ PromptSizing /\ DecodeOnly
    \/ LoopEnds /\ DecodeOnly
    \/ ContextLimitBreak /\ DecodeOnly
    \/ DecodeFails /\ DecodeOnly
    \/ SampleEog /\ DecodeOnly
    \/ SampleToken /\ DecodeOnly

Init == SiloInit /\ LinkIdle /\ ShapeIdle /\ StreamIdle /\ DecodeIdle /\ OptionsIdle /\ OutputInit
        /\ HttpInit /\ DbIdle /\ MorphIdle /\ StoresInit /\ LlamaInit /\ TableInit /\ DsnIdle /\ RegistryIdle /\ ProcessComputeInit /\ ProducerInit /\ PostgresInit /\ RowsIdle /\ CacheInit /\ CoreInit /\ InputIdle /\ FileInit /\ ReactorIdle /\ SamplerIdle /\ CorsInit

SiloSpec == Init /\ [][SiloNext]_vars

SiloNoKillSpec == Init /\ [][SiloNoKillNext]_vars

\* the child task and a pending wait are scheduled fairly by the runtime
SiloFairSpec ==
    /\ SiloSpec
    /\ \A t \in ThreadIds : WF_vars(ChildUpdateStatus(t) /\ SiloOnly)
    /\ \A t \in ThreadIds : WF_vars(WaitEnd(t) /\ SiloOnly)

LinkStart == SiloInit /\ LinkInit /\ ShapeIdle /\ StreamIdle /\ DecodeIdle /\ OptionsIdle /\ OutputInit
    /\ HttpInit /\ DbIdle /\ MorphIdle /\ StoresInit /\ LlamaInit /\ TableInit /\ DsnIdle /\ RegistryIdle /\ ProcessComputeInit /\ ProducerInit /\ PostgresInit /\ RowsIdle /\ CacheInit /\ CoreInit /\ InputIdle /\ FileInit /\ ReactorIdle /\ SamplerIdle /\ CorsInit

\* link_imports applied to every import set under every configuration
LinkSpec == LinkStart /\ [][LinkNext]_vars

ShapeStart == SiloInit /\ LinkIdle /\ ShapeInit /\ StreamIdle /\ DecodeIdle /\ OptionsIdle /\ OutputInit
    /\ HttpInit /\ DbIdle /\ MorphIdle /\ StoresInit /\ LlamaInit /\ TableInit /\ DsnIdle /\ RegistryIdle /\ ProcessComputeInit /\ ProducerInit /\ PostgresInit /\ RowsIdle /\ CacheInit /\ CoreInit /\ InputIdle /\ FileInit /\ ReactorIdle /\ SamplerIdle /\ CorsInit

\* the ComponentType selection applied to every export list
ShapeSpec == ShapeStart /\ [][ShapeNext]_vars

StreamStart == SiloInit /\ LinkIdle /\ ShapeIdle /\ StreamInit /\ DecodeIdle /\ OptionsIdle /\ OutputInit
    /\ HttpInit /\ DbIdle /\ MorphIdle /\ StoresInit /\ LlamaInit /\ TableInit /\ DsnIdle /\ RegistryIdle /\ ProcessComputeInit /\ ProducerInit /\ PostgresInit /\ RowsIdle /\ CacheInit /\ CoreInit /\ InputIdle /\ FileInit /\ ReactorIdle /\ SamplerIdle /\ CorsInit

StreamSpec == StreamStart /\ [][StreamNext]_vars

DecodeStart == SiloInit /\ LinkIdle /\ ShapeIdle /\ StreamIdle /\ DecodeInit /\ OptionsIdle /\ OutputInit
    /\ HttpInit /\ DbIdle /\ MorphIdle /\ StoresInit /\ LlamaInit /\ TableInit /\ DsnIdle /\ RegistryIdle /\ ProcessComputeInit /\ ProducerInit /\ PostgresInit /\ RowsIdle /\ CacheInit /\ CoreInit /\ InputIdle /\ FileInit /\ ReactorIdle /\ SamplerIdle /\ CorsInit

DecodeSpec == DecodeStart /\ [][DecodeNext]_vars

OutputOnly ==
    UNCHANGED <<siloVars, linkVars, shapeVars, streamVars, decodeVars, optionVars,
                httpVars, dbVars, morphVars, storeVars, llamaVars,
      tableVars,
      dsnVars,
      registryVars,
      computeVars,
      producerVars,
      postgresVars,
      rowsVars,
      cacheVars,
      coreVars,
      inputVars,
      fileVars,
      reactorVars,
      samplerVars,
      corsVars>>

OptionsNext == ResolveOptions /\ OptionsOnly

OptionsStart ==
    /\ SiloInit /\ LinkIdle /\ ShapeIdle /\ StreamIdle /\ DecodeIdle
    /\ OptionsInit /\ OutputInit /\ HttpInit /\ DbIdle /\ MorphIdle /\ StoresInit /\ LlamaInit /\ TableInit /\ DsnIdle /\ RegistryIdle /\ ProcessComputeInit /\ ProducerInit /\ PostgresInit /\ RowsIdle /\ CacheInit /\ CoreInit /\ InputIdle /\ FileInit /\ ReactorIdle /\ SamplerIdle /\ CorsInit

\* the option resolution applied to every PromptOptions value
OptionsSpec == OptionsStart /\ [][OptionsNext]_vars

OutputNext ==
    \/ \E utf8 \in BOOLEAN : Write(utf8) /\ OutputOnly
    \/ WriterRecv /\ OutputOnly
    \/ WriterSendOk /\ OutputOnly
    \/ WriterSendErr /\ OutputOnly

OutputSpec == Init /\ [][OutputNext]_vars

HttpOnly ==
    UNCHANGED <<siloVars, linkVars, shapeVars, streamVars, decodeVars, optionVars,
                outputVars, dbVars, morphVars, storeVars, llamaVars,
      tableVars,
      dsnVars,
      registryVars,
      computeVars,
      producerVars,
      postgresVars,
      rowsVars,
      cacheVars,
      coreVars,
      inputVars,
      fileVars,
      reactorVars,
      samplerVars,
      corsVars>>

HttpNext ==
    \/ \E r \in Requests : HandleRequest(r) /\ HttpOnly
    \/ \E r \in Requests, value \in {"response", "error"} :
          GuestSets(r, value) /\ HttpOnly
    \/ \E r \in Requests, result \in {"Ok", "Err", "JoinError"} :
          GuestTaskEnds(r, result) /\ HttpOnly
    \/ \E r \in Requests : HandleReceives(r) /\ HttpOnly
    \/ \E r \in Requests : HandleDisconnected(r) /\ HttpOnly

HttpSpec == Init /\ [][HttpNext]_vars

DbOnly ==
    UNCHANGED <<siloVars, linkVars, shapeVars, streamVars, decodeVars, optionVars,
                outputVars, httpVars, morphVars, storeVars, llamaVars,
      tableVars,
      dsnVars,
      registryVars,
      computeVars,
      producerVars,
      postgresVars,
      rowsVars,
      cacheVars,
      coreVars,
      inputVars,
      fileVars,
      reactorVars,
      samplerVars,
      corsVars>>

DbNext ==
    \/ \E accepted \in BOOLEAN : Prepare(accepted) /\ DbOnly
    \/ \E rows \in RowSets(dbBackend) : Query(rows) /\ DbOnly
    \/ Execute /\ DbOnly
    \/ \E i \in 1..MaxCursors : RowsNext(i) /\ DbOnly
    \/ \E i \in 1..MaxCursors : ConnectionDelivers(i) /\ DbOnly
    \/ Close /\ DbOnly

DbStart ==
    /\ SiloInit /\ LinkIdle /\ ShapeIdle /\ StreamIdle /\ DecodeIdle
    /\ OptionsIdle /\ OutputInit /\ HttpInit /\ DbInit /\ MorphIdle /\ StoresInit /\ LlamaInit /\ TableInit /\ DsnIdle /\ RegistryIdle /\ ProcessComputeInit /\ ProducerInit /\ PostgresInit /\ RowsIdle /\ CacheInit /\ CoreInit /\ InputIdle /\ FileInit /\ ReactorIdle /\ SamplerIdle /\ CorsInit

DbSpec == DbStart /\ [][DbNext]_vars

MorphOnly ==
    UNCHANGED <<siloVars, shapeVars, streamVars, decodeVars, optionVars, outputVars,
                httpVars, dbVars, storeVars,
                llamaVars, tableVars,
      dsnVars,
      registryVars,
      computeVars,
      producerVars,
      postgresVars,
      rowsVars,
      cacheVars,
      coreVars,
      inputVars,
      fileVars,
      reactorVars,
      samplerVars,
      corsVars>>

MorphNext ==
    \/ MorphLink /\ MorphOnly
    \/ MorphRuns /\ MorphOnly
    \/ \E capability \in {"wasi", "core", "ai", "silo", "wac"} :
          MorphCalls(capability) /\ MorphOnly

MorphStart ==
    /\ SiloInit /\ MorphInit /\ ShapeIdle /\ StreamIdle /\ DecodeIdle
    /\ OptionsIdle /\ OutputInit /\ HttpInit /\ DbIdle /\ StoresInit /\ LlamaInit /\ TableInit /\ DsnIdle /\ RegistryIdle /\ ProcessComputeInit /\ ProducerInit /\ PostgresInit /\ RowsIdle /\ CacheInit /\ CoreInit /\ InputIdle /\ FileInit /\ ReactorIdle /\ SamplerIdle /\ CorsInit

\* the engine of a spawned morph, for every set of imports
MorphSpec == MorphStart /\ [][MorphNext]_vars

StoresOnly ==
    UNCHANGED <<siloVars, linkVars, shapeVars, streamVars, decodeVars, optionVars,
                outputVars, httpVars, dbVars, morphVars,
                llamaVars, tableVars,
      dsnVars,
      registryVars,
      computeVars,
      producerVars,
      postgresVars,
      rowsVars,
      cacheVars,
      coreVars,
      inputVars,
      fileVars,
      reactorVars,
      samplerVars,
      corsVars>>

StoresNext ==
    \/ \E s \in Stores : NewStore(s) /\ StoresOnly
    \/ \E s \in Stores, i \in SpawnedIds : StoreSpawn(s, i) /\ StoresOnly
    \/ \E s \in Stores, i \in SpawnedIds : StoreKill(s, i) /\ StoresOnly
    \/ \E s \in Stores, i \in SpawnedIds : StoreWait(s, i) /\ StoresOnly
    \/ \E s \in Stores, i \in SpawnedIds : StoreStatus(s, i) /\ StoresOnly
    \/ \E i \in SpawnedIds : SpawnedExits(i) /\ StoresOnly

StoresSpec == Init /\ [][StoresNext]_vars

LlamaOnly ==
    UNCHANGED <<siloVars, linkVars, shapeVars, streamVars, decodeVars, optionVars,
                outputVars, httpVars, dbVars, morphVars, storeVars, tableVars,
      dsnVars,
      registryVars,
      computeVars,
      producerVars,
      postgresVars,
      rowsVars,
      cacheVars,
      coreVars,
      inputVars,
      fileVars,
      reactorVars,
      samplerVars,
      corsVars>>

LlamaNext ==
    \/ \E name \in ModelNames, null \in BOOLEAN : Load(name, null) /\ LlamaOnly
    \/ \E optionsOk \in BOOLEAN, null \in BOOLEAN :
          ComputeBegin(optionsOk, null) /\ LlamaOnly
    \/ \E ok \in BOOLEAN : Tokenize(ok) /\ LlamaOnly
    \/ \E panics \in BOOLEAN : PromptFits(panics) /\ LlamaOnly
    \/ \E null \in BOOLEAN : BatchGrows(null) /\ LlamaOnly
    \/ \E null \in BOOLEAN : CreateSampler(null) /\ LlamaOnly
    \/ \E result \in {"Ok", "Err"} : DecodeLoop(result) /\ LlamaOnly
    \/ BackendDrop /\ LlamaOnly

LlamaSpec == Init /\ [][LlamaNext]_vars

TableOnly ==
    UNCHANGED <<siloVars, linkVars, shapeVars, streamVars, decodeVars, optionVars,
                outputVars, httpVars, dbVars, morphVars, storeVars, llamaVars,
      dsnVars,
      registryVars,
      computeVars,
      producerVars,
      postgresVars,
      rowsVars,
      cacheVars,
      coreVars,
      inputVars,
      fileVars,
      reactorVars,
      samplerVars,
      corsVars>>

TableNext ==
    \/ \E kind \in {"thread", "connection"}, s \in Slots : Push(kind, s) /\ TableOnly
    \/ \E s \in Slots, op \in {"id", "wait", "prepare", "close"} :
          Method(s, op) /\ TableOnly
    \/ \E s \in Slots : Drop(s) /\ TableOnly

TableSpec == Init /\ [][TableNext]_vars

DsnOnly ==
    UNCHANGED <<siloVars, linkVars, shapeVars, streamVars, decodeVars, optionVars, outputVars,
                httpVars, dbVars, morphVars, storeVars, llamaVars, tableVars,
      registryVars,
      computeVars,
      producerVars,
      postgresVars,
      rowsVars,
      cacheVars,
      coreVars,
      inputVars,
      fileVars,
      reactorVars,
      samplerVars,
      corsVars>>

DsnNext == GetDatabaseType /\ DsnOnly

DsnStart ==
    /\ SiloInit /\ LinkIdle /\ ShapeIdle /\ StreamIdle /\ DecodeIdle
    /\ OptionsIdle /\ OutputInit /\ HttpInit /\ DbIdle /\ MorphIdle /\ StoresInit /\ LlamaInit /\ TableInit /\ DsnInit /\ RegistryIdle /\ ProcessComputeInit /\ ProducerInit /\ PostgresInit /\ RowsIdle /\ CacheInit /\ CoreInit /\ InputIdle /\ FileInit /\ ReactorIdle /\ SamplerIdle /\ CorsInit

\* the classification applied to every connection string
DsnSpec == DsnStart /\ [][DsnNext]_vars

RegistryOnly ==
    UNCHANGED <<siloVars, linkVars, shapeVars, streamVars, decodeVars, optionVars, outputVars,
                httpVars, dbVars, morphVars, storeVars, llamaVars, tableVars, dsnVars,
      computeVars,
      producerVars,
      postgresVars,
      rowsVars,
      cacheVars,
      coreVars,
      inputVars,
      fileVars,
      reactorVars,
      samplerVars,
      corsVars>>

RegistryNext == FindMorphPath /\ RegistryOnly

RegistryStart ==
    /\ SiloInit /\ LinkIdle /\ ShapeIdle /\ StreamIdle /\ DecodeIdle
    /\ OptionsIdle /\ OutputInit /\ HttpInit /\ DbIdle /\ MorphIdle /\ StoresInit /\ LlamaInit /\ TableInit
    /\ DsnIdle /\ RegistryInit /\ ProcessComputeInit /\ ProducerInit /\ PostgresInit /\ RowsIdle /\ CacheInit /\ CoreInit /\ InputIdle /\ FileInit /\ ReactorIdle /\ SamplerIdle /\ CorsInit

\* find_morph_path applied to every registry directory and identifier
RegistrySpec == RegistryStart /\ [][RegistryNext]_vars

ProcessComputeOnly ==
    UNCHANGED <<siloVars, linkVars, shapeVars, streamVars, decodeVars, optionVars, outputVars,
                httpVars, dbVars, morphVars, storeVars, llamaVars, tableVars, dsnVars, registryVars,
      producerVars,
      postgresVars,
      rowsVars,
      cacheVars,
      coreVars,
      inputVars,
      fileVars,
      reactorVars,
      samplerVars,
      corsVars>>

ProcessComputeNext ==
    \/ \E stream \in BOOLEAN : ProcessCompute(stream) /\ ProcessComputeOnly
    \/ \E ok \in BOOLEAN : DecodeOptions(ok) /\ ProcessComputeOnly
    \/ \E null \in BOOLEAN : NewContext(null) /\ ProcessComputeOnly
    \/ \E ok \in BOOLEAN : PromptString(ok) /\ ProcessComputeOnly
    \/ \E r \in {"ok", "nul", "negative"} : TokenizePrompt(r) /\ ProcessComputeOnly
    \/ \E null \in BOOLEAN : SizePrompt(null) /\ ProcessComputeOnly
    \/ \E null \in BOOLEAN : NewSampler(null) /\ ProcessComputeOnly
    \/ \E ok \in BOOLEAN : FillBatch(ok) /\ ProcessComputeOnly
    \/ LoopDone /\ ProcessComputeOnly
    \/ \E code \in DecodeCodes : LlamaDecode(code) /\ ProcessComputeOnly
    \/ \E code \in DecodeCodes : RetryDecode(code) /\ ProcessComputeOnly
    \/ \E o \in {"eog", "piece_fails", "token", "batch_fails"} :
          SampleNext(o) /\ ProcessComputeOnly
    \/ ReaderDropped /\ ProcessComputeOnly

ProcessComputeSpec == Init /\ [][ProcessComputeNext]_vars

ProducerOnly ==
    UNCHANGED <<siloVars, linkVars, shapeVars, streamVars, decodeVars, optionVars, outputVars,
                httpVars, dbVars, morphVars, storeVars, llamaVars, tableVars, dsnVars, registryVars, computeVars,
      postgresVars,
      rowsVars,
      cacheVars,
      coreVars,
      inputVars,
      fileVars,
      reactorVars,
      samplerVars,
      corsVars>>

ProducerNext ==
    \/ \E kind \in {"duplex", "socket"} : NewStream(kind) /\ ProducerOnly
    \/ LlmDecode /\ ProducerOnly
    \/ LlmFinish /\ ProducerOnly
    \/ LlmWrite /\ ProducerOnly
    \/ ProducerReadDuplex /\ ProducerOnly
    \/ \E r \in {"data", "eof", "err"} : ProducerReadSocket(r) /\ ProducerOnly
    \/ ProducerSendItem /\ ProducerOnly
    \/ ConsumerReceives /\ ProducerOnly
    \/ ConsumerDrops /\ ProducerOnly
    \/ ProducerAborted /\ ProducerOnly

ProducerSpec == Init /\ [][ProducerNext]_vars

\* the runtime goes on running the tasks it holds: a cancelled task is dropped,
\* a send or a write that can complete completes, and the computation goes on;
\* nothing is assumed of the source or of the consumer
ProducerFairSpec ==
    /\ ProducerSpec
    /\ WF_vars(ProducerAborted /\ ProducerOnly)
    /\ WF_vars(ProducerSendItem /\ ProducerOnly)
    /\ WF_vars(LlmWrite /\ ProducerOnly)
    /\ WF_vars((LlmDecode \/ LlmFinish) /\ ProducerOnly)

PostgresOnly ==
    UNCHANGED <<siloVars, linkVars, shapeVars, streamVars, decodeVars, optionVars, outputVars,
                httpVars, dbVars, morphVars, storeVars, llamaVars, tableVars, dsnVars, registryVars, computeVars, producerVars,
      rowsVars,
      cacheVars,
      coreVars,
      inputVars,
      fileVars,
      reactorVars,
      samplerVars,
      corsVars>>

PostgresNext ==
    \/ \E c \in Connections : PostgresNew(c) /\ PostgresOnly
    \/ \E c \in Connections : PostgresClose(c) /\ PostgresOnly
    \/ \E c \in Connections : PostgresDrop(c) /\ PostgresOnly
    \/ \E c \in Connections : TaskCancelled(c) /\ PostgresOnly
    \/ \E c \in Connections : ConnectionEnds(c) /\ PostgresOnly

PostgresSpec == Init /\ [][PostgresNext]_vars

\* the database runtime is multi-threaded and goes on polling the task once
\* the token has woken it
PostgresFairSpec ==
    /\ PostgresSpec
    /\ \A c \in Connections : WF_vars(TaskCancelled(c) /\ PostgresOnly)

RowsOnly ==
    UNCHANGED <<siloVars, linkVars, shapeVars, streamVars, decodeVars, optionVars, outputVars,
                httpVars, dbVars, morphVars, storeVars, llamaVars, tableVars, dsnVars, registryVars, computeVars, producerVars, postgresVars,
      cacheVars,
      coreVars,
      inputVars,
      fileVars,
      reactorVars,
      samplerVars,
      corsVars>>

RowsNextStep ==
    \/ SQLiteRowsNext /\ RowsOnly
    \/ PostgresRowsNext /\ RowsOnly

RowsStart ==
    /\ SiloInit /\ LinkIdle /\ ShapeIdle /\ StreamIdle /\ DecodeIdle
    /\ OptionsIdle /\ OutputInit /\ HttpInit /\ DbIdle /\ MorphIdle /\ StoresInit /\ LlamaInit /\ TableInit
    /\ DsnIdle /\ RegistryIdle /\ ProcessComputeInit /\ ProducerInit /\ PostgresInit /\ RowsInit /\ CacheInit /\ CoreInit /\ InputIdle /\ FileInit /\ ReactorIdle /\ SamplerIdle /\ CorsInit

\* next() called again and again on the cursor of every result
RowsSpec == RowsStart /\ [][RowsNextStep]_vars

RowsCloseNext ==
    \/ SQLiteRowsNext /\ RowsOnly
    \/ PostgresRowsNext /\ RowsOnly
    \/ SQLiteRowsClose /\ RowsOnly
    \/ PostgresRowsClose /\ RowsOnly

\* next() and close() called in any order on the cursor of every result
RowsCloseSpec == RowsStart /\ [][RowsCloseNext]_vars

CacheOnly ==
    UNCHANGED <<siloVars, linkVars, shapeVars, streamVars, decodeVars, optionVars, outputVars,
                httpVars, dbVars, morphVars, storeVars, llamaVars, tableVars, dsnVars, registryVars, computeVars, producerVars, postgresVars, rowsVars,
      coreVars,
      inputVars,
      fileVars,
      reactorVars,
      samplerVars,
      corsVars>>

CacheNext ==
    \/ (\E name \in CacheNames, null \in BOOLEAN : CacheLoad(name, null)) /\ CacheOnly
    \/ (\E g \in 1..Len(handles) : InitExecutionContext(g)) /\ CacheOnly
    \/ (\E g \in 1..Len(handles) : DropHandle(g)) /\ CacheOnly
    \/ CacheBackendDrop /\ CacheOnly

CacheSpec == Init /\ [][CacheNext]_vars

CoreOnly ==
    UNCHANGED <<siloVars, linkVars, shapeVars, streamVars, decodeVars, optionVars, outputVars,
                httpVars, dbVars, morphVars, storeVars, llamaVars, tableVars, dsnVars, registryVars, computeVars, producerVars, postgresVars, rowsVars, cacheVars,
      inputVars,
      fileVars,
      reactorVars,
      samplerVars,
      corsVars>>

CoreNext ==
    \/ (\E d \in Ticks : Tick(d)) /\ CoreOnly
    \/ (\E backend \in BackendResults : Latest(backend)) /\ CoreOnly

CoreSpec == Init /\ [][CoreNext]_vars

InputOnly ==
    UNCHANGED <<siloVars, linkVars, shapeVars, streamVars, decodeVars, optionVars, outputVars,
                httpVars, dbVars, morphVars, storeVars, llamaVars, tableVars, dsnVars, registryVars, computeVars, producerVars, postgresVars, rowsVars, cacheVars, coreVars,
      fileVars,
      reactorVars,
      samplerVars,
      corsVars>>

InputStart ==
    /\ SiloInit /\ LinkIdle /\ ShapeIdle /\ StreamIdle /\ DecodeIdle /\ OptionsIdle
    /\ OutputInit /\ HttpInit /\ DbIdle /\ MorphIdle /\ StoresInit /\ LlamaInit
    /\ TableInit /\ DsnIdle /\ RegistryIdle /\ ProcessComputeInit /\ ProducerInit
    /\ PostgresInit /\ RowsIdle /\ CacheInit /\ CoreInit /\ InputInit /\ FileInit /\ ReactorIdle /\ SamplerIdle /\ CorsInit

InputNext ==
    \/ SocketEnds /\ InputOnly
    \/ TaskReadBuf /\ InputOnly
    \/ TaskSend /\ InputOnly
    \/ (\E size \in 1..MaxMessages : InputRead(size)) /\ InputOnly
    \/ InputReady /\ InputOnly

InputSpec == InputStart /\ [][InputNext]_vars

FileOnly ==
    UNCHANGED <<siloVars, linkVars, shapeVars, streamVars, decodeVars, optionVars, outputVars,
                httpVars, dbVars, morphVars, storeVars, llamaVars, tableVars, dsnVars, registryVars, computeVars, producerVars, postgresVars, rowsVars, cacheVars, coreVars, inputVars,
      reactorVars,
      samplerVars,
      corsVars>>

FileNext ==
    \/ (\E b \in FileBytes : AppendByte(b)) /\ FileOnly
    \/ (\E size \in 1..MaxFile, n \in 1..MaxFile : FileRead(size, n)) /\ FileOnly
    \/ ReadyBegin /\ FileOnly
    \/ ReadyReturns /\ FileOnly

FileSpec == Init /\ [][FileNext]_vars

ReactorOnly ==
    UNCHANGED <<siloVars, linkVars, shapeVars, streamVars, decodeVars, optionVars, outputVars,
                httpVars, dbVars, morphVars, storeVars, llamaVars, tableVars, dsnVars, registryVars, computeVars, producerVars, postgresVars, rowsVars, cacheVars, coreVars, inputVars, fileVars,
      samplerVars,
      corsVars>>

ReactorStart ==
    /\ SiloInit /\ LinkIdle /\ ShapeIdle /\ StreamIdle /\ DecodeIdle /\ OptionsIdle
    /\ OutputInit /\ HttpInit /\ DbIdle /\ MorphIdle /\ StoresInit /\ LlamaInit
    /\ TableInit /\ DsnIdle /\ RegistryIdle /\ ProcessComputeInit /\ ProducerInit
    /\ PostgresInit /\ RowsIdle /\ CacheInit /\ CoreInit /\ InputIdle /\ FileInit
    /\ ReactorInit /\ SamplerIdle /\ CorsInit

ReactorNext ==
    (\E callOk \in BOOLEAN : RunReactor(callOk)) /\ ReactorOnly

ReactorSpec == ReactorStart /\ [][ReactorNext]_vars

SamplerOnly ==
    UNCHANGED <<siloVars, linkVars, shapeVars, streamVars, decodeVars, optionVars, outputVars,
                httpVars, dbVars, morphVars, storeVars, llamaVars, tableVars, dsnVars, registryVars, computeVars, producerVars, postgresVars, rowsVars, cacheVars, coreVars, inputVars, fileVars, reactorVars,
      corsVars>>

SamplerStart ==
    /\ SiloInit /\ LinkIdle /\ ShapeIdle /\ StreamIdle /\ DecodeIdle /\ OptionsIdle
    /\ OutputInit /\ HttpInit /\ DbIdle /\ MorphIdle /\ StoresInit /\ LlamaInit
    /\ TableInit /\ DsnIdle /\ RegistryIdle /\ ProcessComputeInit /\ ProducerInit
    /\ PostgresInit /\ RowsIdle /\ CacheInit /\ CoreInit /\ InputIdle /\ FileInit
    /\ ReactorIdle /\ SamplerInit /\ CorsInit

SamplerNext ==
    \/ (\E r \in Runs, random \in RandomSeeds : BuildSamplerChain(r, random)) /\ SamplerOnly
    \/ (\E r \in Runs : SampleWithChain(r)) /\ SamplerOnly

SamplerSpec == SamplerStart /\ [][SamplerNext]_vars

CorsOnly ==
    UNCHANGED <<siloVars, linkVars, shapeVars, streamVars, decodeVars, optionVars, outputVars,
                httpVars, dbVars, morphVars, storeVars, llamaVars, tableVars, dsnVars, registryVars, computeVars, producerVars, postgresVars, rowsVars, cacheVars, coreVars, inputVars, fileVars, reactorVars, samplerVars>>

CorsNext ==
    \/ CorsHandleRequest /\ CorsOnly
    \/ (\E value \in OutparamValues : CorsGuestSets(value)) /\ CorsOnly
    \/ (\E result \in {"Ok", "Err", "JoinError"} : CorsGuestTaskEnds(result)) /\ CorsOnly
    \/ CorsHandleReceives /\ CorsOnly
    \/ CorsHandleDisconnected /\ CorsOnly

CorsSpec == Init /\ [][CorsNext]_vars

Spec == SiloSpec

\* ------------------------------------------------------------------------
\* Claims about the thread registry
\* ------------------------------------------------------------------------

\* C1: for every spawned thread t, a successful wait(t) does not return before
\* the task has terminated; once the child has finished running its engine a
\* pending wait(t) gets to return (stated as what a fair run needs: the child's
\* status update or the wait's return is able to take its step); and after
\* wait(t) has returned status(t) is not Processing.
C1_WaitContract ==
    \A t \in ThreadIds :
        /\ (waitPc[t] = "returned" /\ waitRes[t] = "Ok") => ~Live(t)
        /\ (waitPc[t] = "awaiting" /\ task[t] \in {"finished_run", "done"})
               => ENABLED (ChildUpdateStatus(t) \/ WaitEnd(t))
        /\ waitPc[t] = "returned" => metadata(t) # "Processing"

\* C1, the eventual return as a temporal formula (checked under SiloFairSpec)
C1_WaitEventuallyReturns ==
    \A t \in ThreadIds :
        (waitPc[t] = "awaiting" /\ task[t] \in {"finished_run", "done"})
            ~> (waitPc[t] = "returned")

\* C2: a status changes only from Processing to Exited or from Processing to
\* Killed; an Exited or Killed status never changes again.
C2_StatusTransitions ==
    [][\A t \in ThreadIds :
          (threads[t].present /\ threads'[t].status # threads[t].status)
              => (threads[t].status = "Processing"
                  /\ threads'[t].status \in {"Exited", "Killed"})]_vars

\* C3: when no kill is issued, a thread whose task has completed and which
\* spawn has registered reports Exited, however the task's completion
\* interleaves with the registration.
C3_NaturalExitReportsExited ==
    \A t \in ThreadIds :
        (task[t] = "done" /\ spawnPc[t] = "inserted") => metadata(t) = "Exited"

\* C4: kill(t) on a Processing thread whose task is still live returns success
\* and sets Killed; kill(t) on a thread that is already Exited or Killed
\* returns ThreadNotFound and leaves the status as it was.
C4_KillContract ==
    lastOp.op = "kill" =>
        /\ (lastOp.live /\ lastOp.pre = "Processing") =>
               (lastOp.res = "Ok" /\ lastOp.post = "Killed")
        /\ lastOp.pre \in {"Exited", "Killed"} =>
               (lastOp.res = "ThreadNotFound" /\ lastOp.post = lastOp.pre)

\* C5: an entry whose status is not Processing has no task handle; this is the
\* status/handle pair every reader of the entry finds under the shard lock.
C5_TerminalHasNoHandle ==
    \A t \in ThreadIds :
        (threads[t].present /\ threads[t].status # "Processing") => ~threads[t].handle

\* C6: once link_imports has returned, it succeeded exactly when every
\* capability the component imports (wasi, core, ai, silo, wac, db; wasi:nn
\* counting as ai) is enabled in the engine's configuration, and when it failed
\* its error names an imported capability that is disabled.  The configuration
\* holds no flag that enables db.
C6_LinkIffAllEnabled ==
    LET imported ==
            {c \in {"wasi", "core", "ai", "silo", "wac", "db"} :
                \/ c = "wasi" /\ wasi_imported(linkImports)
                \/ c = "core" /\ core_imported(linkImports)
                \/ c = "ai" /\ ai_imported(linkImports)
                \/ c = "silo" /\ silo_imported(linkImports)
                \/ c = "wac" /\ wac_imported(linkImports)
                \/ c = "db" /\ Import("hayride", "db") \in linkImports}
        enabled(c) ==
            CASE c = "wasi" -> linkCfg.wasi_enabled
              [] c = "core" -> linkCfg.core_enabled
              [] c = "ai" -> linkCfg.ai_enabled
              [] c = "silo" -> linkCfg.silo_enabled
              [] c = "wac" -> linkCfg.wac_enabled
              [] OTHER -> FALSE
        message(c) ==
            CASE c = "wasi" -> "WASI is not enabled"
              [] c = "core" -> "Core is not enabled"
              [] c = "ai" -> "AI is not enabled"
              [] c = "silo" -> "Silo is not enabled"
              [] c = "wac" -> "WAC is not enabled"
              [] OTHER -> "DB is not enabled"
    IN  linkRes.called =>
            /\ linkRes.ok <=> \A c \in imported : enabled(c)
            /\ ~linkRes.ok =>
                   \E c \in imported : ~enabled(c) /\ linkRes.err = message(c)

\* C7: the selected component type follows the priority CLI > WebSocket server
\* > HTTP server > Reactor whatever the order of the exports: Cli when some
\* export is `run`, else WebsocketServer when some `handle` is exported under
\* interface websocket, else Server when some `handle` is exported, else Reactor.
C7_ShapePriority ==
    LET has_run == \E k \in 1..Len(exports) : exports[k].name = "run"
        has_ws ==
            \E k \in 1..Len(exports) :
                exports[k].name = "handle" /\ exports[k].interface = "websocket"
        has_handle == \E k \in 1..Len(exports) : exports[k].name = "handle"
    IN  component_type # "none" =>
            component_type =
                IF has_run THEN "Cli"
                ELSE IF has_ws THEN "WebsocketServer"
                ELSE IF has_handle THEN "Server"
                ELSE "Reactor"

\* C8: the bytes the reads have returned, concatenated, are a prefix of the
\* bytes of the frames the producer enqueued, in the same order; and no byte is
\* lost or duplicated: what was read, then the retained remainder, then the
\* frames still in the channel make up exactly the enqueued bytes.
C8_ReadsArePrefix ==
    /\ Len(readOut) <= Len(enqueued_bytes)
    /\ \A i \in 1..Len(readOut) : readOut[i] = enqueued_bytes[i]
    /\ readOut \o buffer.bytes \o queued_bytes(channel) = enqueued_bytes

\* C8, the case of a split: the last read split a frame longer than its size cap, the
\* remainder is retained in the buffer, and earlier reads returned bytes too
C8_SplitRetained ==
    /\ lastRead.res = "Ok"
    /\ lastRead.split
    /\ buffer.kind = "data"
    /\ Len(readOut) > lastRead.len
    /\ lastRead.len >= 1

\* C9: a read issued when the stream is already marked closed returns the
\* terminal error (not Ok with data, not Ok with empty bytes).
C9_ClosedReadsFail ==
    lastRead.closedBefore => lastRead.res = "Err"

\* C10: in the decode loop position never exceeds num_context and n_decoded
\* never exceeds max_predict.
C10_DecodeBounds ==
    decodePc \in {"loop", "done", "error"} =>
        /\ position <= num_context
        /\ n_decoded <= max_predict

\* C11: when prompt sizing meets a prompt larger than the batch size, then if
\* prompt_size + 512 <= num_context the batch size becomes
\* min(prompt_size + 512, num_context) and the whole prompt goes to the first
\* batch; otherwise the batch size stays and exactly the last batch_size - 64
\* tokens of the prompt go to the first batch (and sizing does not fail).
C11_PromptSizing ==
    [][(decodePc = "sizing" /\ decodePc' # "sizing" /\ prompt_size > batch_size) =>
          IF prompt_size + BatchGrowth <= num_context
          THEN /\ decodePc' = "loop"
               /\ batch_size' = Min(prompt_size + BatchGrowth, num_context)
               /\ n_tokens' = prompt_size
          ELSE /\ decodePc' = "loop"
               /\ batch_size' = batch_size
               /\ n_tokens' = batch_size - TruncateRoom]_vars

\* C12: once the options are resolved: without an options tensor every
\* parameter has its default; with one, each of the integer fields num_context,
\* num_batch, max_predict, top_k and seed keeps the default when it is zero and
\* takes the supplied value otherwise, num_context being capped at 128000 and
\* num_batch at the effective num_context; temperature and top_p take the
\* supplied value, zero included.
C12_OptionsResolved ==
    effective # NoOptions =>
        IF options = NoOptions
        THEN /\ effective.temperature = DefaultTemperature
             /\ effective.num_context = DefaultContext
             /\ effective.num_batch = DefaultBatch
             /\ effective.max_predict = DefaultPredict
             /\ effective.top_k = DefaultTopK
             /\ effective.top_p = DefaultTopP
             /\ effective.seed \in RandomSeeds
        ELSE /\ effective.temperature = options.temperature
             /\ effective.top_p = options.top_p
             /\ effective.num_context =
                    IF options.num_context = 0 THEN DefaultContext
                    ELSE Min(options.num_context, MaxContext)
             /\ effective.num_batch =
                    IF options.num_batch = 0 THEN DefaultBatch
                    ELSE Min(options.num_batch, effective.num_context)
             /\ effective.max_predict =
                    IF options.max_predict = 0 THEN DefaultPredict
                    ELSE options.max_predict
             /\ effective.top_k =
                    IF options.top_k = 0 THEN DefaultTopK ELSE options.top_k
             /\ IF options.seed = 0 THEN effective.seed \in RandomSeeds
                ELSE effective.seed = options.seed

\* C12, the case the statement turns on: options were given with temperature
\* and top_p zero and a num_batch above the effective num_context, and resolved
C12_ZeroFloatsResolved ==
    /\ options # NoOptions
    /\ effective # NoOptions
    /\ options.temperature = 0
    /\ options.top_p = 0
    /\ options.num_batch > effective.num_context

\* C12 as stated: every field that is zero leaves the default, temperature and
\* top_p included, and every non-zero field is taken as supplied, only
\* num_context being capped (at 128000).
C12_EveryZeroKeepsDefault ==
    (effective # NoOptions /\ options # NoOptions) =>
        /\ effective.temperature =
               IF options.temperature = 0 THEN DefaultTemperature
               ELSE options.temperature
        /\ effective.top_p =
               IF options.top_p = 0 THEN DefaultTopP ELSE options.top_p
        /\ effective.num_context =
               IF options.num_context = 0 THEN DefaultContext
               ELSE Min(options.num_context, MaxContext)
        /\ effective.num_batch =
               IF options.num_batch = 0 THEN DefaultBatch ELSE options.num_batch
        /\ effective.max_predict =
               IF options.max_predict = 0 THEN DefaultPredict
               ELSE options.max_predict
        /\ effective.top_k =
               IF options.top_k = 0 THEN DefaultTopK ELSE options.top_k
        /\ IF options.seed = 0 THEN effective.seed \in RandomSeeds
           ELSE effective.seed = options.seed

\* C13: the payloads of the successful writes are, in write order, those the
\* writer task is done with, then the one it is sending, then those in the
\* channel; and the frames the socket accepted are exactly one text frame per
\* payload the writer is done with and whose socket send did not fail, in write
\* order (a payload whose send fails is dropped, later ones still go out).
C13_FramesInWriteOrder ==
    LET inFlight == IF sending = 0 THEN <<>> ELSE <<sending>>
        pendingLen == Len(inFlight) + Len(outQueue)
        done == SubSeq(written, 1, Len(written) - pendingLen)
        accepted(k) == k \notin failedSends
        sent == SelectSeq(done, accepted)
    IN  /\ pendingLen <= Len(written)
        /\ SubSeq(written, Len(written) - pendingLen + 1, Len(written))
               = inFlight \o outQueue
        /\ frames = [i \in 1..Len(sent) |-> TextFrame(sent[i])]

\* C13, the case of two frames delivered in order around a failed send
C13_TwoFramesOneDropped ==
    /\ Len(frames) >= 2
    /\ failedSends # {}
    /\ Len(written) >= 3

\* C13 as stated: every successful write the writer task is done with has been
\* delivered as one text frame, in write order.
C13_EveryWriteDelivered ==
    LET inFlight == IF sending = 0 THEN <<>> ELSE <<sending>>
        pendingLen == Len(inFlight) + Len(outQueue)
        done == SubSeq(written, 1, Len(written) - pendingLen)
    IN  frames = [i \in 1..Len(done) |-> TextFrame(done[i])]

\* C14: when the guest's handle task is over, with success or with an error,
\* and the guest never called response-outparam::set, handle_request, once it
\* has returned, has returned the error that the guest never invoked
\* response-outparam::set: it has not panicked and has returned no response.
C14_NeverSetIsAnError ==
    \A r \in Requests :
        (guestTask[r] \in {"Ok", "Err", "JoinError"} /\ outparam[r] = "unset"
             /\ handlePc[r] = "returned")
            => handleRes[r] = "never_invoked"

\* C15: after close() on a DB connection, PostgreSQL or SQLite, the
\* connection's background task is no longer running, and a use of a handle
\* derived from the connection before the close (prepare on the connection,
\* query or execute on a Statement, next on a Rows) fails with an error
\* instead of returning data.
C15_ClosedConnectionFails ==
    /\ ~dbClient => dbTask # "running"
    /\ (lastDb.op \in {"prepare", "query", "execute", "next"} /\ lastDb.closed)
           => lastDb.res # "Ok"

\* C16: the engine silo spawn builds for a morph has the silo capability
\* disabled: when the spawned component imports hayride:silo, link_imports
\* fails and the component is never instantiated or run, and no spawned morph
\* ever calls into silo.
C16_SpawnedMorphHasNoSilo ==
    /\ morphPc # "none" => ~linkCfg.silo_enabled
    /\ (morphPc # "none" /\ silo_imported(linkImports))
           => /\ morphPc \in {"spawned", "failed"}
              /\ linkRes.called => ~linkRes.ok
    /\ "silo" \notin morphCalls

\* C16 witness: a morph importing hayride:silo was spawned and its link
\* failed with "Silo is not enabled"
C16_SiloImportRejected ==
    /\ morphPc = "failed"
    /\ silo_imported(linkImports)
    /\ linkRes.err = "Silo is not enabled"

\* C17: the wait handle of a thread is consumed by the first wait: once a
\* wait(t) has returned, the entry holds no handle, so a later wait(t) has no
\* task to await and answers ThreadNotFound whatever the status, and that
\* later wait is able to take its step at once (it does not block).
C17_LaterWaitNotFound ==
    \A t \in ThreadIds :
        waitPc[t] = "returned"
            => /\ ~(threads[t].present /\ threads[t].handle)
               /\ resource[t] => ENABLED WaitBegin(t)

\* C18: silo calls made through different Stores of one server are
\* independent: a spawn, kill or wait made through one Store leaves what
\* status(id) and group() return through every other Store unchanged.
C18_StoresIndependent ==
    [][\A s \in Stores :
          (storeOpen[s] /\ lastCall' # lastCall /\ lastCall'.store # s
               /\ lastCall'.op \in {"spawn", "kill", "wait"})
              => /\ store_group(s)' = store_group(s)
                 /\ \A i \in SpawnedIds : store_status(s, i)' = store_status(s, i)]_vars

\* the position of the last release of a kind in a sequence of releases, 0
\* when there is none
LastRelease(seq, kind) ==
    LET at == {k \in 1..Len(seq) : seq[k] = kind}
    IN IF at = {} THEN 0 ELSE CHOOSE k \in at : \A j \in at : j <= k

Count(seq, kind) == Cardinality({k \in 1..Len(seq) : seq[k] = kind})

\* what holds of the releases on every exit path whatever their order: every
\* native object constructed is released exactly once, the model is not
\* released by the compute, a null from a native constructor ends the compute
\* with an error, and the backend's drop frees every loaded model before the
\* native backend
ReleasesComplete ==
    /\ computePc = "returned"
           => /\ contextGuard # "live" /\ samplerGuard # "live"
              /\ Count(released, "context") = Count(created, "context")
              /\ Count(released, "sampler") = Count(created, "sampler")
    /\ Count(released, "model") = 0
    /\ nullSeen => (computePc = "returned" /\ computeRes = "Err")
    /\ ~backendLive
           => /\ models = {}
              /\ Count(teardown, "backend") = 1
              /\ teardown[Len(teardown)] = "backend"

C20_LiveOrDropped ==
    /\ \A h \in LiveHandles :
           table[h.slot] # Empty /\ table[h.slot].contents = h.contents
    /\ \A h \in droppedHandles :
           \A s \in Slots : table[s].contents # h.contents
    /\ \A s \in Slots : Cardinality(LiveAt(s)) <= 1
    /\ \A s \in Slots : table[s] # Empty => LiveAt(s) # {}
    /\ lastDeref.op # "none" => lastDeref.ok = (lastDeref.held # 0)
    /\ lastDeref.ok => lastDeref.contents = lastDeref.held

\* C20 witness: a handle was dropped, its slot given out again, and a method
\* on the slot reached the new resource while a closed connection stays live
C20_SlotReused ==
    /\ \E h \in droppedHandles : LiveAt(h.slot) # {}
    /\ lastDeref.ok
    /\ \E h \in droppedHandles : h.slot = lastDeref.slot
    /\ \E s \in Slots : table[s].closed

C22_MorphResolution ==
    found # NoFind =>
        LET file == <<"n", ".", "w", "a", "s", "m">>
        IN /\ (/\ input = Id_versioned
               /\ V_1_2_0 \in DOMAIN registry
               /\ registry[V_1_2_0] = "dir_wasm")
                  => found = [ok |-> TRUE, path |-> <<PackageName, V_1_2_0, file>>,
                              err |-> "none"]
           /\ (input = Id_latest /\ version_dirs(registry) # {})
                  => /\ found.path[1] = PackageName
                     /\ found.path[2] \in version_dirs(registry)
                     /\ found.path[3] = file
                     /\ \A e \in version_dirs(registry) :
                            precedence_cmp(version_parse(e),
                                           version_parse(found.path[2])) <= 0
                     /\ found.ok = (registry[found.path[2]] = "dir_wasm")
           /\ version_dirs(registry) \subseteq
                  {V_1_0_0, V_1_2_0, V_2_0_0_beta_1, V_2_0_0_beta_2, V_2_0_0_beta_11,
                   V_10_0_0, V_1_2_0_build}
           /\ (/\ input = Id_latest
               /\ version_dirs(registry) = {V_1_0_0, V_1_2_0, V_2_0_0_beta_1})
                  => found.path = <<PackageName, V_2_0_0_beta_1, file>>

\* the directories 1.2.0, 2.0.0-beta.1 and latest exist and the identifier
\* without a version has resolved to 2.0.0-beta.1/n.wasm
C22_LatestSelected ==
    /\ input = Id_latest
    /\ DOMAIN registry = {V_1_2_0, V_2_0_0_beta_1, N_latest}
    /\ \A e \in DOMAIN registry : registry[e] = "dir_wasm"
    /\ found.ok
    /\ found.path[2] = V_2_0_0_beta_1

\* C23: the decode loop stops after at most max_predict decoded tokens or as
\* soon as position comes within 1000 tokens of num_context, also when no
\* end-of-generation token is ever sampled: the loop is never about to decode
\* again once more than max_predict tokens have been decoded
C23_LoopStopsByMaxPredict ==
    ~(/\ decodePc = "loop"
      /\ loop_condition
      /\ position <= num_context - ContextReserve
      /\ n_decoded > max_predict)

\* C24: a write that finds the outbound queue full drops the frame and does
\* not report the stream as closed (the stream is reported closed only after
\* the writer task has exited, and the writer task lives as long as the pipe)
C24_FullQueueNotClosed ==
    [][(writes' = writes + 1 /\ Len(outQueue) >= OutQueueCap)
          => (lastWrite' # "Closed" /\ outQueue' = outQueue)]_vars

\* C25: in each iteration of the decode loop a llama_decode failure with code
\* -3 clears the KV cache and decodes the same batch exactly once more; when
\* the retry fails, or the first failure has another code, the computation
\* has returned FailedTokenization and decodes no more.  The statement of the
\* specification: the error returned is always FailedTokenization.
C25_RetryOnceThenFailedTokenization ==
    LET decode_failed == res \notin {<<>>, <<0>>} /\ (res = <<-3>> => retry_res \notin {<<>>, <<0>>})
    IN /\ decodes <= 2
       /\ kv_clears <= 1
       /\ decodes = 2 => (res = <<-3>> /\ kv_clears = 1)
       /\ (res = <<-3>> /\ stage # "retry") => decodes = 2
       /\ decode_failed => (stage = "returned" /\ outcome = "FailedTokenization")

\* C25, as the code has it: the same, and the error returned is
\* FailedTokenization unless the stream refuses the text of the error, in
\* which case it is FailedToWriteOutput
C25_RetryOnceThenFails ==
    LET decode_failed == res \notin {<<>>, <<0>>} /\ (res = <<-3>> => retry_res \notin {<<>>, <<0>>})
    IN /\ decodes <= 2
       /\ kv_clears <= 1
       /\ decodes = 2 => (res = <<-3>> /\ kv_clears = 1)
       /\ (res = <<-3>> /\ stage # "retry") => decodes = 2
       /\ decode_failed =>
             /\ stage = "returned"
             /\ outcome = IF writerSet /\ ~readerAlive /\ ~errorText
                          THEN "FailedToWriteOutput"
                          ELSE "FailedTokenization"

\* a decode failed with -3, the retry failed too, and the computation returned
C25_RetryFailed ==
    /\ res = <<-3>>
    /\ retry_res = <<-1>>
    /\ decodes = 2
    /\ kv_clears = 1
    /\ stage = "returned"
    /\ outcome = "FailedTokenization"

\* C26: when a streaming compute has failed and the reader of the stream is
\* still there, the text of the error has been written to the stream
C26_ErrorTextWritten ==
    (/\ stage = "returned"
     /\ writerSet
     /\ readerAlive
     /\ outcome # "Ok")
        => errorText

\* C27: while a wait(t) is pending, the registry entry of t is not locked:
\* status(t), kill(t), group() and the final status update of the child task
\* can all take their step without the wait returning first
C27_PendingWaitBlocksNobody ==
    \A t \in ThreadIds :
        waitPc[t] = "awaiting" =>
            /\ ENABLED Status(t)
            /\ ENABLED Kill(t)
            /\ ENABLED Group
            /\ task[t] = "finished_run" => ENABLED ChildUpdateStatus(t)

C29_TaskEndsAfterCancel ==
    /\ [](\A c \in Connections :
             pgConnection[c] \in {"closed", "dropped"} => pgToken[c])
    /\ \A c \in Connections : pgToken[c] ~> (pgTask[c] = "ended")

\* a connection was dropped without close and its task has ended, while
\* another connection was closed and its task has ended
C29_DroppedTaskEnded ==
    \E c, d \in Connections :
        /\ pgConnection[c] = "dropped"
        /\ pgClient[c]
        /\ pgTask[c] = "ended"
        /\ pgConnection[d] = "closed"
        /\ pgTask[d] = "ended"

\* C30: on a cursor over a result of k rows (delivered without a failure of
\* the connection) the i-th next() returns the i-th row of the result for
\* i <= k and EndOfRows for every i > k; for SELECT 1 on SQLite the first
\* next() returns the one-column row Int64(1) and the second EndOfRows
C30_RowsInOrderThenEnd ==
    /\ rowsFailAt = 0 =>
          \A i \in 1..Len(nextReturns) :
              IF i <= Len(rowsResult)
              THEN nextReturns[i] =
                       [res |-> "Ok",
                        row |-> IF rowsKind = "sqlite"
                                THEN sqlite_row_to_dbvalue_row(rowsResult[i])
                                ELSE row_to_dbvalue_row(rowsResult[i])]
              ELSE nextReturns[i] = [res |-> "EndOfRows", row |-> <<>>]
    /\ (rowsKind = "sqlite" /\ rowsResult = <<SqliteOne>>) =>
          /\ Len(nextReturns) >= 1 =>
                nextReturns[1] = [res |-> "Ok", row |-> <<[t |-> "Int64", v |-> 1]>>]
          /\ Len(nextReturns) >= 2 => nextReturns[2].res = "EndOfRows"

\* three next() calls on the cursor of SELECT 1 on SQLite: the row, then
\* EndOfRows twice
C30_SelectOneRead ==
    /\ rowsKind = "sqlite"
    /\ rowsResult = <<SqliteOne>>
    /\ Len(nextReturns) = 3
    /\ nextReturns[1].res = "Ok"
    /\ nextReturns[3].res = "EndOfRows"

\* C31: after close() on a Rows cursor every later next() on it returns
\* EndOfRows, on PostgreSQL and on SQLite
C31_ClosedCursorEnds ==
    \A i, j \in 1..Len(nextReturns) :
        (i < j /\ nextReturns[i].res = "Closed" /\ nextReturns[j].res # "Closed")
            => nextReturns[j].res = "EndOfRows"

\* how often model m was passed to llama_free_model
C32_FreeCount(m) == Cardinality({i \in 1..Len(frees) : frees[i] = m})

\* C32: within one backend a name's model is loaded from its file at most
\* once, every Graph that load returned for a name (and every execution
\* context made from it) refers to the one model kept for that name, no
\* model is freed while the backend is alive, and once the backend is
\* dropped every model that was loaded has been freed exactly once
C32_ModelCache ==
    /\ \A n \in CacheNames : fileLoads[n] <= 1
    /\ \A i, j \in 1..Len(handles) :
           handles[i].name = handles[j].name => handles[i].model = handles[j].model
    /\ \A i \in 1..Len(handles) :
           cacheAlive => modelMap[handles[i].name] = handles[i].model
    /\ cacheAlive => frees = <<>>
    /\ ~cacheAlive => \A m \in 1..(nextModel - 1) : C32_FreeCount(m) = 1

\* the backend was dropped after two names were loaded, one of them twice,
\* and after a Graph had been dropped
C32_DroppedWithSharedModel ==
    /\ ~cacheAlive
    /\ Len(frees) = 2
    /\ \E i, j \in 1..Len(handles) :
           /\ i < j
           /\ handles[i].kind = "graph" /\ handles[j].kind = "graph"
           /\ handles[i].name = handles[j].name
           /\ ~handles[i].live

\* C33: latest() calls the version backend exactly when there is no
\* previous successful check or more than 3600 seconds have passed since it;
\* otherwise it returns the cached value and leaves the cache alone; a
\* successful backend call stores the time of the call and the value
C33_RefreshPolicy ==
    lastLatest.result # <<>> =>
        /\ lastLatest.called <=>
               \/ lastLatest.before.last_check = <<>>
               \/ lastLatest.now > lastLatest.before.last_check[1] + 3600
        /\ ~lastLatest.called =>
               /\ lastLatest.result = <<"Ok", lastLatest.before.last_version[1]>>
               /\ version_cache = lastLatest.before
        /\ (lastLatest.called /\ lastLatest.backend[1] = "Ok") =>
               /\ version_cache.last_check = <<lastLatest.now>>
               /\ version_cache.last_version = <<lastLatest.backend[2]>>
               /\ lastLatest.result = lastLatest.backend

\* a call exactly 3600 seconds after the last successful check was served
\* from the cache
C33_ServedAtTheHour ==
    /\ lastLatest.result # <<>>
    /\ ~lastLatest.called
    /\ lastLatest.before.last_check # <<>>
    /\ lastLatest.now = lastLatest.before.last_check[1] + 3600

\* C34: a latest() whose backend call fails leaves the cache as it was and
\* returns an error, a cached value notwithstanding, and the latest() after
\* it calls the backend again
C34_FailedCheck ==
    [][ latestCalls' = latestCalls + 1 =>
            /\ (lastLatest'.called /\ lastLatest'.backend = <<"Err">>) =>
                   /\ version_cache' = version_cache
                   /\ lastLatest'.result = <<"Err">>
            /\ lastLatest.result = <<"Err">> => lastLatest'.called ]_vars

\* a failed check with a value in the cache, followed by nothing yet
C34_FailedWithCachedValue ==
    /\ lastLatest.result = <<"Err">>
    /\ lastLatest.before.last_version # <<>>
    /\ version_cache = lastLatest.before

\* the bytes of the Text and Binary messages up to the first Close
RECURSIVE C35_Payload(_)
C35_Payload(msgs) ==
    IF msgs = <<>> \/ Head(msgs).kind = "Close" THEN <<>>
    ELSE (IF Head(msgs).kind \in {"Text", "Binary"} THEN Head(msgs).payload ELSE <<>>)
             \o C35_Payload(Tail(msgs))

\* the bytes the first n reads returned, in order
RECURSIVE C35_Delivered(_)
C35_Delivered(n) ==
    IF n = 0 THEN <<>>
    ELSE C35_Delivered(n - 1)
             \o (IF readReturns[n][1] = "Ok" THEN readReturns[n][2] ELSE <<>>)

\* C35: the reads deliver the payload bytes of the Text and Binary messages
\* in arrival order and nothing else; the stream is reported closed only
\* after a Close message or the end of the socket, and only once every
\* payload byte has been delivered; and every read after a read that
\* reported the stream closed reports it closed
C35_InputStream ==
    LET all == C35_Payload(wsMessages)
        got == C35_Delivered(Len(readReturns))
    IN  /\ Len(got) <= Len(all)
        /\ got = SubSeq(all, 1, Len(got))
        /\ \A i \in 1..Len(readReturns) :
               readReturns[i] = <<"Closed">> =>
                   /\ ~socketOpen \/ \E k \in 1..Len(wsMessages) : wsMessages[k].kind = "Close"
                   /\ C35_Delivered(i) = all
                   /\ \A j \in i..Len(readReturns) : readReturns[j] = <<"Closed">>

\* the bytes the first n reads of the file stream returned, in order
RECURSIVE C36_Returned(_)
C36_Returned(n) ==
    IF n = 0 THEN <<>> ELSE C36_Returned(n - 1) \o readLog[n].ret[2]

\* C36: over an append-only file the reads return exactly the file's bytes
\* up to the read position, in file order and each once, the position never
\* passes the file's length, a read at the end of the file returns empty
\* bytes and not an error, and ready() returns only when the file holds
\* bytes beyond the position
C36_FileStdin ==
    /\ filePosition <= Len(inFile)
    /\ C36_Returned(Len(readLog)) = SubSeq(inFile, 1, filePosition)
    /\ \A i \in 1..Len(readLog) :
           readLog[i].at >= readLog[i].len => readLog[i].ret = <<"Ok", <<>>>>
    /\ readyPc = "returned" => (readyAt[1] < readyAt[2] /\ readyAt[1] = filePosition)

\* the whole file was read in more than one read, one of them at the end of
\* the file, and ready() has returned along the way
C36_ReadAllWithEmptyRead ==
    /\ Len(inFile) = MaxFile
    /\ filePosition = MaxFile
    /\ readyAt # <<>>
    /\ \E i, j \in 1..Len(readLog) :
           /\ i < j
           /\ readLog[i].ret = <<"Ok", <<>>>>
           /\ Len(readLog[j].ret[2]) < readLog[j].size
           /\ readLog[j].ret[2] # <<>>

\* every parameter type of the exported function is one run converts
C37_TypesSupported ==
    \A i \in 1..Len(runParams) :
        runParams[i] \in {"string", "s32", "s64", "u32", "u64", "bool"}

\* C37 as stated: the function is invoked only when the number of
\* arguments after the name equals the parameter count and every parameter
\* type is string, s32, s64, u32, u64 or bool; an argument list that fails
\* either check gets the error 'incorrect number of arguments' or 'unknown
\* parameter type', and the function is not invoked
C37_ChecksBeforeInvoke ==
    runPc = "returned" =>
        /\ runInvoked => (Len(runArgs) - 1 = Len(runParams) /\ C37_TypesSupported)
        /\ ~(Len(runArgs) - 1 = Len(runParams) /\ C37_TypesSupported) =>
               /\ ~runInvoked
               /\ runReturn \in {"Incorrect number of arguments", "Unknown Param Type"}

\* C37 as amended: as above, but the error for a function with an
\* unsupported parameter type may also be the parse error of an argument
\* for an earlier, supported parameter
C37_ChecksBeforeInvokeOrParse ==
    runPc = "returned" =>
        /\ runInvoked => (Len(runArgs) - 1 = Len(runParams) /\ C37_TypesSupported)
        /\ Len(runArgs) - 1 # Len(runParams) =>
               (~runInvoked /\ runReturn = "Incorrect number of arguments")
        /\ (Len(runArgs) - 1 = Len(runParams) /\ ~C37_TypesSupported) =>
               /\ ~runInvoked
               /\ \/ runReturn = "Unknown Param Type"
                  \/ /\ runReturn = "ParseError"
                     /\ \E i \in 1..Len(runParams) :
                            /\ ~parses(runParams[i], runArgs[i + 1])
                            /\ \A k \in 1..i : supported(runParams[k])

\* run refused a function whose second parameter is a list, with the right
\* number of arguments, one for each parameter
C37_RefusedForType ==
    /\ runPc = "returned"
    /\ Len(runParams) = 2 /\ Len(runArgs) = 3
    /\ runParams[1] = "string" /\ runParams[2] = "list"
    /\ runReturn = "Unknown Param Type"
    /\ ~runInvoked

\* C38: with temperature 0 the chain is the greedy sampler alone, so two
\* computations over the same model and prompt whose options differ only in
\* seed, top_k or top_p have built the same chain and have decoded the same
\* pieces as far as both have got
C38_GreedyIgnoresSeed ==
    (/\ samplerOptions["A"].temperature = 0
     /\ samplerOptions["B"].temperature = 0
     /\ samplerChain["A"] # <<>> /\ samplerChain["B"] # <<>>) =>
        /\ samplerChain["A"] = <<[s |-> "greedy", arg |-> 0]>>
        /\ samplerChain["A"] = samplerChain["B"]
        /\ \A i \in 1..Min(Len(decodedPieces["A"]), Len(decodedPieces["B"])) :
               decodedPieces["A"][i] = decodedPieces["B"][i]

\* two computations at temperature 0 that differ in seed, top_k and top_p
\* have both decoded to the end
C38_BothDecodedGreedy ==
    /\ samplerOptions["A"].temperature = 0
    /\ samplerOptions["A"].seed # samplerOptions["B"].seed
    /\ samplerOptions["A"].top_k # samplerOptions["B"].top_k
    /\ samplerOptions["A"].top_p # samplerOptions["B"].top_p
    /\ Len(decodedPieces["A"]) = MaxPieces
    /\ Len(decodedPieces["B"]) = MaxPieces

\* the three CORS headers with the values the adapter gives them
C39_CorsHeaders ==
    {<<"access-control-allow-origin", "*">>,
     <<"access-control-allow-methods", "GET, POST, OPTIONS">>,
     <<"access-control-allow-headers", "*">>}

C39_CorsNames == {h[1] : h \in C39_CorsHeaders}

\* C39: the adapter returns a response exactly when the component set one,
\* and that response is the component's with the three CORS headers, each
\* with its one value, and every other header as the component set it; an
\* error the component set is returned as it is, and no response
C39_CorsOnSetResponses ==
    corsPc = "returned" =>
        /\ corsResult[1] = "Ok" <=> (corsOutparam # <<>> /\ corsOutparam[1] = "response")
        /\ corsResult[1] = "Ok" =>
               /\ corsResult[2].status = corsOutparam[2].status
               /\ {h \in corsResult[2].headers : h[1] \in C39_CorsNames} = C39_CorsHeaders
               /\ {h \in corsResult[2].headers : h[1] \notin C39_CorsNames}
                      = {h \in corsOutparam[2].headers : h[1] \notin C39_CorsNames}
        /\ (corsOutparam # <<>> /\ corsOutparam[1] = "error") =>
               corsResult = <<"Err", corsOutparam[2]>>

\* a response that came with its own allow-origin and a content type was
\* returned with the CORS headers
C39_ResponseWithOwnOrigin ==
    /\ corsPc = "returned"
    /\ corsResult[1] = "Ok"
    /\ <<"access-control-allow-origin", "https://a.example">> \in corsOutparam[2].headers
    /\ <<"content-type", "text/plain">> \in corsResult[2].headers

\* C40: an entry of the thread registry is never removed: from the state
\* in which spawn has inserted thread t on, status(t) is not ThreadNotFound
\* and group() lists t, whatever happens to the thread; and dropping the
\* Thread resource changes neither the registry nor any task nor any abort
C40_EntriesPersist ==
    [][ /\ \A t \in ThreadIds :
               threads[t].present =>
                   /\ threads'[t].present
                   /\ metadata(t)' # "ThreadNotFound"
                   /\ t \in group_ids'
        /\ \A t \in ThreadIds :
               (lastOp' # lastOp /\ lastOp'.op = "status" /\ lastOp'.id = t
                    /\ threads[t].present) => lastOp'.res # "ThreadNotFound"
        /\ \A t \in ThreadIds :
               (resource[t] /\ ~resource'[t]) =>
                   (threads' = threads /\ task' = task /\ abortFlag' = abortFlag) ]_vars

\* the Thread resource of a thread that was killed while it ran has been
\* dropped, and a status call on it answered Killed
C40_DroppedAndStillListed ==
    \E t \in ThreadIds :
        /\ threads[t].present
        /\ ~resource[t]
        /\ task[t] = "cancelled"
        /\ lastOp.op = "status" /\ lastOp.id = t /\ lastOp.res = "Killed"
        /\ t \in group_ids

====
